---------------------------- MODULE Spec2Model ----------------------------
(***************************************************************************)
(* A model of the bill_analysis pipeline: the source parsers' column       *)
(* mapping and sign reconciliation, BillAnalyzer._load_all_bills,          *)
(* DataCleaner.clean, Deduplicator.deduplicate and                         *)
(* deduplicate_by_time_window, and TransactionClassifier.classify, chained *)
(* as BillAnalyzer.run chains them.                                        *)
(*                                                                         *)
(* A DataFrame is a sequence of rows, a row a record of its columns.       *)
(* Column names are the English names of the canonical schema:             *)
(*   time = "shijian", platform = "pingtai", type = "leixing",             *)
(*   counterparty = "duifang", amount = "jine", direction = "shou/zhi",    *)
(*   description = "shangpin miaoshu", category = "fenlei",                *)
(*   raw_description = "yuanshi miaoshu".                                  *)
(* A string is a sequence of characters: an ASCII character is itself, any *)
(* other character is the token "uXXXX" of its code point.                 *)
(* An amount is an integer number of mills (1/1000 yuan); a time is a      *)
(* number of seconds after the start of the ledger's first day.            *)
(* The field rid is not a column: it records which input row a row is, so  *)
(* that statements about row identity can be written. No operation reads   *)
(* it.                                                                     *)
(***************************************************************************)
EXTENDS Integers, Sequences, FiniteSets, TLC

\* The largest number of rows of an input table.
MaxRows == 2

\* The longest table handed to deduplicate_by_time_window.
MaxWindowRows == 3

\* The largest number of files wechat_*.xlsx of the input directory.
MaxFiles == 2

\* The largest number of rows of the bill files of the input directory, taken
\* together.
MaxLedgerRows == 3

\* The largest number of columns of an export handed to _map_columns.
MaxColumns == 3

----------------------------------------------------------------------------
(* Missing values (pandas NaN / NaT) *)

\* A missing string cell (pd.isna is true of it).
NaN == <<"NaN">>
\* A missing amount: no amount of the model is this small.
NaNAmount == -999999
\* A missing time (NaT): times are never negative.
NaT == -1

notna(v) == v # NaN

----------------------------------------------------------------------------
(* Strings *)

Upper == <<"A","B","C","D","E","F","G","H","I","J","K","L","M",
           "N","O","P","Q","R","S","T","U","V","W","X","Y","Z">>
LowerLetters == <<"a","b","c","d","e","f","g","h","i","j","k","l","m",
                  "n","o","p","q","r","s","t","u","v","w","x","y","z">>

LowerOf == [i \in 1..Len(Upper) |-> LowerLetters[i]]
UpperIndex == [c \in {Upper[i] : i \in 1..Len(Upper)} |-> CHOOSE i \in 1..Len(Upper) : Upper[i] = c]

\* str.lower() of one character: only cased letters change.
LowerChar(c) == IF c \in DOMAIN UpperIndex THEN LowerOf[UpperIndex[c]] ELSE c

\* str.lower()
Lower(s) == [i \in 1..Len(s) |-> LowerChar(s[i])]

\* Python's `kw in text`: kw occurs in text as a contiguous substring.
Contains(text, kw) ==
  \E i \in 0..(Len(text) - Len(kw)) : SubSeq(text, i + 1, i + Len(kw)) = kw

IsSpace(c) == c \in {" ", "\t", "\n"}

RECURSIVE LStrip(_)
LStrip(s) == IF s # <<>> /\ IsSpace(Head(s)) THEN LStrip(Tail(s)) ELSE s

RECURSIVE RStrip(_)
RStrip(s) ==
  IF s # <<>> /\ IsSpace(s[Len(s)]) THEN RStrip(SubSeq(s, 1, Len(s) - 1)) ELSE s

\* str.strip()
Strip(s) == RStrip(LStrip(s))

----------------------------------------------------------------------------
(* Fixed strings of the program *)

\* "weifenlei", the uncategorized sentinel
UNCATEGORIZED == <<"u672a","u5206","u7c7b">>
\* platform names: "weixin" (p2p app), "zhifubao" (wallet app), "jianshe yinhang" (bank)
WECHAT == <<"u5fae","u4fe1">>
ALIPAY == <<"u652f","u4ed8","u5b9d">>
CCB == <<"u5efa","u8bbe","u94f6","u884c">>
\* directions: "zhichu" (expense), "shouru" (income), "qita" (other)
DIR_EXPENSE == <<"u652f","u51fa">>
DIR_INCOME == <<"u6536","u5165">>
DIR_OTHER == <<"u5176","u4ed6">>

\* DataCleaner.TRANSFER_KEYWORDS, in declaration order. A character outside ASCII is
\* written as the token "uXXXX" of its code point; an ASCII character as itself.
TRANSFER_KEYWORDS ==
  << <<"u5145","u503c">>,
     <<"u63d0","u73b0">>,
     <<"u8f6c","u5165">>,
     <<"u8f6c","u51fa">>,
     <<"u4f59","u989d">>,
     <<"u96f6","u94b1">>,
     <<"u8d22","u4ed8","u901a">>,
     <<"u652f","u4ed8","u5b9d">>,
     <<"u5fae","u4fe1">>,
     <<"u8fd8","u6b3e">>,
     <<"u4fe1","u7528","u5361">>,
     <<"u82b1","u5457">>,
     <<"u501f","u5457">> >>

CAT_FOOD == <<"u9910","u996e","u7f8e","u98df">>
CAT_SHOPPING == <<"u8d2d","u7269","u6d88","u8d39">>
CAT_TRANSPORT == <<"u4ea4","u901a","u51fa","u884c">>
CAT_LEISURE == <<"u4f11","u95f2","u5a31","u4e50">>
CAT_MEDICAL == <<"u533b","u7597","u5065","u5eb7">>
CAT_EDUCATION == <<"u6559","u80b2","u57f9","u8bad">>
CAT_HOUSING == <<"u623f","u5c4b","u7269","u4e1a">>
CAT_SOCIAL == <<"u4eba","u60c5","u5f80","u6765">>
CAT_FINANCE == <<"u91d1","u878d","u670d","u52a1">>

\* TransactionClassifier.CATEGORY_RULES: the categories in declaration order, each
\* with its keywords in declaration order.
CATEGORY_RULES ==
  << [category |-> CAT_FOOD, keywords |-> <<
       <<"u9910","u5385">>, <<"u996d","u5e97">>, <<"u5feb","u9910">>, <<"u5916","u5356">>,
       <<"u7f8e","u98df">>, <<"u5c0f","u5403">>, <<"u706b","u9505">>, <<"u70e7","u70e4">>,
       <<"u5496","u5561">>, <<"u5976","u8336">>, <<"u996e","u54c1">>, <<"u70b9","u5fc3">>,
       <<"u9762","u5305">>, <<"u86cb","u7cd5">>, <<"u96f6","u98df">>, <<"u8d85","u5e02">>,
       <<"u83dc","u5e02","u573a">>, <<"u8089">>, <<"u83dc">>, <<"u6c34","u679c">>,
       <<"u98df","u54c1">>, <<"u53ef","u53e3","u53ef","u4e50">>, <<"u767e","u4e8b">>,
       <<"u661f","u5df4","u514b">>, <<"u745e","u5e78">>, <<"u80af","u5fb7","u57fa">>,
       <<"u9ea6","u5f53","u52b3">>, <<"u5fc5","u80dc","u5ba2">>, <<"u6c49","u5821","u738b">>,
       <<"u6d77","u5e95","u635e">>, <<"u897f","u8d1d">>, <<"u771f","u529f","u592b">>,
       <<"u6c38","u548c","u5927","u738b">> >>],
     [category |-> CAT_SHOPPING, keywords |-> <<
       <<"u6dd8","u5b9d">>, <<"u5929","u732b">>, <<"u4eac","u4e1c">>,
       <<"u62fc","u591a","u591a">>, <<"u82cf","u5b81">>, <<"u56fd","u7f8e">>,
       <<"u767e","u8d27">>, <<"u5546","u573a">>, <<"u8d85","u5e02">>,
       <<"u4fbf","u5229","u5e97">>, <<"u670d","u9970">>, <<"u670d","u88c5">>, <<"u978b">>,
       <<"u5305">>, <<"u5316","u5986","u54c1">>, <<"u62a4","u80a4","u54c1">>,
       <<"u65e5","u7528","u54c1">>, <<"u5bb6","u5c45">>, <<"u5bb6","u7535">>,
       <<"u6570","u7801">>, <<"u624b","u673a">>, <<"u7535","u8111">>, <<"u76f8","u673a">> >>],
     [category |-> CAT_TRANSPORT, keywords |-> <<
       <<"u6ef4","u6ef4">>, <<"U","b","e","r">>, <<"u51fa","u79df","u8f66">>,
       <<"u7f51","u7ea6","u8f66">>, <<"u5730","u94c1">>, <<"u516c","u4ea4">>,
       <<"u706b","u8f66">>, <<"u9ad8","u94c1">>, <<"u98de","u673a">>, <<"u673a","u7968">>,
       <<"u8239","u7968">>, <<"u52a0","u6cb9">>, <<"u5145","u7535">>, <<"u505c","u8f66">>,
       <<"u9ad8","u901f">>, <<"u8fc7","u8def","u8d39">>, <<"u79df","u8f66">>,
       <<"u5171","u4eab","u5355","u8f66">>, <<"u6469","u62dc">>, <<"o","f","o">>,
       <<"u54c8","u5570">>, <<"u7f8e","u56e2","u6253","u8f66">> >>],
     [category |-> CAT_LEISURE, keywords |-> <<
       <<"u7535","u5f71">>, <<"u5f71","u9662">>, <<"K","T","V">>, <<"u7f51","u5427">>,
       <<"u6e38","u620f">>, <<" ","S","t","e","a","m">>, <<"u817e","u8baf","u6e38","u620f">>,
       <<"u7f51","u6613","u6e38","u620f">>, <<"u7231","u5947","u827a">>,
       <<"u817e","u8baf","u89c6","u9891">>, <<"u4f18","u9177">>, <<"u8292","u679c">>,
       <<"u54d4","u54e9","u54d4","u54e9">>, <<"u97f3","u4e50">>,
       <<" ","S","p","o","t","i","f","y">>, <<"Q","Q","u97f3","u4e50">>,
       <<"u7f51","u6613","u4e91","u97f3","u4e50">>, <<"u5065","u8eab">>, <<"u8fd0","u52a8">>,
       <<"u65c5","u6e38">>, <<"u666f","u70b9">>, <<"u9152","u5e97">>, <<"u6c11","u5bbf">>,
       <<"u5ea6","u5047">> >>],
     [category |-> CAT_MEDICAL, keywords |-> <<
       <<"u533b","u9662">>, <<"u8bca","u6240">>, <<"u836f","u5e97">>, <<"u836f","u623f">>,
       <<"u6302","u53f7">>, <<"u4f53","u68c0">>, <<"u75ab","u82d7">>, <<"u533b","u7597">>,
       <<"u773c","u955c">>, <<"u53e3","u8154">>, <<"u7259","u79d1">>, <<"u4e2d","u533b">>,
       <<"u6309","u6469">>, <<"u4fdd","u5065">> >>],
     [category |-> CAT_EDUCATION, keywords |-> <<
       <<"u6559","u80b2">>, <<"u57f9","u8bad">>, <<"u5b66","u6821">>, <<"u8bfe","u7a0b">>,
       <<"u4e66","u7c4d">>, <<"u56fe","u4e66">>, <<"u51fa","u7248","u793e">>,
       <<"u5728","u7ebf","u6559","u80b2">>, <<"u7f51","u8bfe">>, <<"u8f85","u5bfc">>,
       <<"u8003","u8bd5">>, <<"u5b66","u8d39">>, <<"u77e5","u8bc6","u4ed8","u8d39">> >>],
     [category |-> CAT_HOUSING, keywords |-> <<
       <<"u623f","u79df">>, <<"u7269","u4e1a">>, <<"u6c34","u7535">>, <<"u71c3","u6c14">>,
       <<"u91c7","u6696">>, <<"u5bbd","u5e26">>, <<"u8bdd","u8d39">>, <<"u5145","u503c">>,
       <<"u8054","u901a">>, <<"u79fb","u52a8">>, <<"u7535","u4fe1">>,
       <<"u6c34","u7535","u7164">>, <<"u7ef4","u4fee">>, <<"u88c5","u4fee">>,
       <<"u5bb6","u5177">> >>],
     [category |-> CAT_SOCIAL, keywords |-> <<
       <<"u7ea2","u5305">>, <<"u8f6c","u8d26">>, <<"u9001","u793c">>, <<"u793c","u7269">>,
       <<"u793c","u91d1">>, <<"u5a5a","u5e86">>, <<"u751f","u65e5">>, <<"u8282","u65e5">>,
       <<"u6625","u8282">>, <<"u4e2d","u79cb">>, <<"u56fd","u5e86">> >>],
     [category |-> CAT_FINANCE, keywords |-> <<
       <<"u7406","u8d22">>, <<"u57fa","u91d1">>, <<"u80a1","u7968">>, <<"u8bc1","u5238">>,
       <<"u4fdd","u9669">>, <<"u8d37","u6b3e">>, <<"u8fd8","u6b3e">>,
       <<"u4fe1","u7528","u5361">>, <<"u82b1","u5457">>, <<"u501f","u5457">>,
       <<"u767d","u6761">>, <<"u5206","u671f">> >>] >>

----------------------------------------------------------------------------
(* Rows and tables *)

Columns ==
  {"time", "platform", "type", "counterparty", "amount", "direction",
   "description", "category", "raw_description"}

\* A row without the columns in cols (DataFrame.drop(columns=...)).
DropColumns(row, cols) == [c \in (DOMAIN row) \ cols |-> row[c]]

\* The column values of a row, without its identity.
Data(row) == DropColumns(row, {"rid"})

\* DataFrame.empty
empty(df) == Len(df) = 0

----------------------------------------------------------------------------
(* DataCleaner *)

\* is_transfer_transaction looking at the three describing fields only, type
\* and category left out.
is_transfer_transaction_three_fields(row) ==
  \E field \in {"raw_description", "description", "counterparty"} :
    /\ field \in DOMAIN row
    /\ notna(row[field])
    /\ \E k \in 1..Len(TRANSFER_KEYWORDS) :
         Contains(Lower(row[field]), Lower(TRANSFER_KEYWORDS[k]))

\* is_transfer_transaction: some checked field that the row has, and that is
\* not missing, contains some transfer keyword, compared in lower case.
fields_to_check_cleaner ==
  <<"raw_description", "description", "counterparty", "type", "category">>

is_transfer_transaction(row) ==
  \E f \in 1..Len(fields_to_check_cleaner) :
    LET field == fields_to_check_cleaner[f] IN
      /\ field \in DOMAIN row
      /\ notna(row[field])
      /\ LET value == Lower(row[field]) IN
           \E k \in 1..Len(TRANSFER_KEYWORDS) :
             Contains(value, Lower(TRANSFER_KEYWORDS[k]))

\* DataCleaner._filter_transfer_transactions: keep the rows that are no transfer.
filter_transfer_transactions(df) == SelectSeq(df, LAMBDA row : ~is_transfer_transaction(row))

\* dropna with the amount as its only subset column.
dropna_amount_only(df) == SelectSeq(df, LAMBDA row : row.amount # NaNAmount)

\* dropna(subset=[time, amount])
dropna(df) == SelectSeq(df, LAMBDA row : row.time # NaT /\ row.amount # NaNAmount)

\* A comparison with a missing amount is false, != with it is true.
lt(amount, n) == amount # NaNAmount /\ amount < n
ne(amount, n) == amount = NaNAmount \/ amount # n

\* Every copy marked, the first too: a row from row i on is marked when any
\* other row has its key.
duplicated_every_copy(keys, i, seen) ==
  [n \in 1..(Len(keys) + 1 - i) |->
     \E m \in 1..Len(keys) : m # n + i - 1 /\ keys[m] = keys[n + i - 1]]

\* DataFrame.duplicated(keep="first") from row i on: a row is marked when a
\* row before it has the same key. seen holds the keys of the rows before i.
RECURSIVE duplicated(_, _, _)
duplicated(keys, i, seen) ==
  IF i > Len(keys) THEN <<>>
  ELSE <<keys[i] \in seen>> \o duplicated(keys, i + 1, seen \cup {keys[i]})

\* The rows of df whose mark is want.
RECURSIVE MaskBy(_, _, _, _)
MaskBy(df, marks, want, i) ==
  IF i > Len(df) THEN <<>>
  ELSE (IF marks[i] = want THEN <<df[i]>> ELSE <<>>) \o MaskBy(df, marks, want, i + 1)

\* DataFrame.drop_duplicates(): a row goes when an earlier row has the same
\* value in every column.
drop_duplicates(df) ==
  MaskBy(df, duplicated([i \in 1..Len(df) |-> Data(df[i])], 1, {}), FALSE, 1)

\* Step 3 turning every amount into an expense where it should filter.
clean_step3_negating(df) ==
  [i \in 1..Len(df) |->
     [df[i] EXCEPT !.amount = IF @ # NaNAmount /\ @ > 0 THEN 0 - @ ELSE @]]

\* The steps of clean after its emptiness test.
clean_step3(df) == SelectSeq(df, LAMBDA row : lt(row.amount, 0))
clean_step4(df) == SelectSeq(df, LAMBDA row : ne(row.amount, 0))

\* DataCleaner.clean
clean(df) ==
  IF empty(df) THEN df
  ELSE drop_duplicates(
         clean_step4(clean_step3(filter_transfer_transactions(dropna(df)))))

\* An outcome of a call: the table it returned, or the fact that it raised.
Returned(table) == [raised |-> FALSE, table |-> table]
Raised == [raised |-> TRUE, table |-> <<>>]

\* Whether inverting the mask of _filter_transfer_transactions raises when no
\* row is left to filter: DataFrame.apply(axis=1) on a table without rows
\* returns what the pandas build makes of it, an empty float series (whose ~
\* raises TypeError) or an empty table.
invert_empty_mask_raises == BOOLEAN

\* clean without its emptiness test.
clean_outcomes_unguarded(df) ==
  {Returned(clean(df))}
  \cup (IF empty(dropna(df)) THEN {IF r THEN Raised ELSE Returned(<<>>) : r \in invert_empty_mask_raises}
        ELSE {})

\* DataCleaner.clean: the ways a call can end.
clean_outcomes(df) ==
  IF empty(df) THEN {Returned(df)}
  ELSE IF empty(dropna(df))
    THEN {IF r THEN Raised ELSE Returned(<<>>) : r \in invert_empty_mask_raises}
    ELSE {Returned(clean(df))}

----------------------------------------------------------------------------
(* Deduplicator *)

\* The priorities with the wallet app before the p2p app.
platform_priority_wallet_first(platform) ==
  CASE platform = ALIPAY -> 1
    [] platform = WECHAT -> 2
    [] platform = CCB -> 3

\* Deduplicator.__init__: self.platform_priority
platform_priority(platform) ==
  CASE platform = WECHAT -> 1
    [] platform = ALIPAY -> 2
    [] platform = CCB -> 3

known_platform(platform) == platform \in {WECHAT, ALIPAY, CCB}

\* The priority column of a platform that is no key of platform_priority
\* (Series.map gives NaN); sort_values puts it after every number.
NaNPriority == 1000

\* data["platform"].map(self.platform_priority)
priority_of(row) ==
  IF known_platform(row.platform) THEN platform_priority(row.platform) ELSE NaNPriority

\* A key part that make_key leaves empty ("") for a missing value.
EmptyKey == -1

\* The timestamp kept with its seconds, as str(time)[:19] would.
time_key_seconds(time) == IF time # NaT THEN time ELSE EmptyKey

\* str(time)[:16]: the timestamp cut after its minutes.
time_key(time) == IF time # NaT THEN time \div 60 ELSE EmptyKey

\* f"{abs(float(amount)):.2f}": the absolute amount rounded to cents. (Amounts
\* whose mills digit is 5 are outside the model: their binary rounding depends
\* on the float nearest to them.)
amount_key(amount) ==
  IF amount # NaNAmount
    THEN LET a == IF amount < 0 THEN -amount ELSE amount
         IN IF a % 10 >= 5 THEN a \div 10 + 1 ELSE a \div 10
    ELSE EmptyKey

\* str(counterparty).strip()
party_key(counterparty) == IF notna(counterparty) THEN Strip(counterparty) ELSE <<>>

\* make_key: f"{time_key}|{amount_key}|{party_key}". The time part has a fixed
\* width and the amount part holds no "|", so two keys are the same string
\* exactly when their three parts are equal: the key is kept as the triple.
make_key(row) ==
  <<time_key(row.time), amount_key(row.amount), party_key(row.counterparty)>>

\* Deduplicator._generate_dedup_key
generate_dedup_key(df) == [i \in 1..Len(df) |-> make_key(df[i])]

\* The orders DataFrame.sort_values can leave the rows with the indices S in,
\* given the column it sorts by: ascending, the rows with a missing key (na)
\* last and in their input order. The default sort (quicksort) is not stable,
\* so rows of equal key may come out in any order.
RECURSIVE sort_values_orders(_, _, _)
sort_values_orders(keys, na, S) ==
  IF S = {} THEN {<<>>}
  ELSE LET keyed == {i \in S : keys[i] # na}
           first == IF keyed # {}
                      THEN {i \in keyed : \A j \in keyed : keys[i] <= keys[j]}
                      ELSE {i \in S : \A j \in S : i <= j}
       IN UNION {{<<i>> \o rest : rest \in sort_values_orders(keys, na, S \ {i})} :
                   i \in first}

\* The rows left in the order of the table.
sort_orders_unsorted(prio) == {[i \in 1..Len(prio) |-> i]}

\* sort_values("priority")
sort_orders(prio) == sort_values_orders(prio, NaNPriority, 1..Len(prio))

\* No helper column taken out of the results.
helper_columns_none == {}

\* deduplicate: the columns it adds to its copy and drops from its results
helper_columns == {"dedup_key", "priority", "is_duplicate"}

\* DataFrame.duplicated(keep=False): a row is marked when any other row has its
\* key.
duplicated_keep_false(keys) ==
  [i \in 1..Len(keys) |-> \E j \in 1..Len(keys) : j # i /\ keys[j] = keys[i]]

\* deduplicate taking its duplicates with keep=False and its retained rows
\* with keep="first".
deduplicate_sorted_keep_false(df, p) ==
  LET keys == [i \in 1..Len(df) |-> make_key(df[p[i]])]
      sorted == [i \in 1..Len(df) |-> df[p[i]]]
  IN <<MaskBy(sorted, duplicated(keys, 1, {}), FALSE, 1),
       MaskBy(sorted, duplicated_keep_false(keys), TRUE, 1)>>

\* Deduplicator.deduplicate, given the order p its sort produced: the pair
\* (retained, duplicates).
deduplicate_sorted(df, p) ==
  LET keys == generate_dedup_key(df)
      data == [i \in 1..Len(df) |->
                 df[i] @@ [dedup_key |-> keys[i], priority |-> priority_of(df[i])]]
      sorted == [i \in 1..Len(df) |-> data[p[i]]]
      \* duplicated(subset=["dedup_key"], keep="first")
      marks == duplicated([i \in 1..Len(df) |-> sorted[i].dedup_key], 1, {})
      marked == [i \in 1..Len(df) |-> sorted[i] @@ [is_duplicate |-> marks[i]]]
      kept == SelectSeq(marked, LAMBDA row : ~row.is_duplicate)
      dups == SelectSeq(marked, LAMBDA row : row.is_duplicate)
  IN <<[i \in 1..Len(kept) |-> DropColumns(kept[i], helper_columns)],
       [i \in 1..Len(dups) |-> DropColumns(dups[i], helper_columns)]>>

----------------------------------------------------------------------------
(* TransactionClassifier *)

fields_to_check_classifier == <<"description", "counterparty", "raw_description", "type">>

\* combined_text: " " and the value of every checked field the row has and
\* that is not missing, then strip().lower().
RECURSIVE combine(_, _)
combine(row, f) ==
  IF f > Len(fields_to_check_classifier) THEN <<>>
  ELSE LET field == fields_to_check_classifier[f] IN
         (IF field \in DOMAIN row /\ notna(row[field]) THEN <<" ">> \o row[field] ELSE <<>>)
           \o combine(row, f + 1)

\* The text without the description, the first of the checked fields.
combined_text_no_description(row) == Lower(Strip(combine(row, 2)))

combined_text(row) == Lower(Strip(combine(row, 1)))

\* TransactionClassifier._compile_patterns: re.compile(keyword, re.IGNORECASE)
\* for every keyword, in the order of CATEGORY_RULES. No keyword of the table
\* holds a regular-expression metacharacter, so a pattern matches where its
\* keyword occurs, letter case aside: the pattern is kept as the keyword in
\* lower case, to be looked for in the text in lower case.
compiled_patterns ==
  [c \in 1..Len(CATEGORY_RULES) |->
     [k \in 1..Len(CATEGORY_RULES[c].keywords) |-> Lower(CATEGORY_RULES[c].keywords[k])]]

\* pattern.search(text)
pattern_search(pattern, text) == Contains(Lower(text), pattern)

\* The inner loop of _classify_transaction from pattern k on: some pattern of
\* the category is found in the text.
RECURSIVE search_patterns(_, _, _)
search_patterns(patterns, text, k) ==
  IF k > Len(patterns) THEN FALSE
  ELSE IF pattern_search(patterns[k], text) THEN TRUE
  ELSE search_patterns(patterns, text, k + 1)

\* The outer loop without its return: the last category one of whose patterns
\* is found.
RECURSIVE scan_rules_last(_, _)
scan_rules_last(text, c) ==
  IF c > Len(compiled_patterns) THEN UNCATEGORIZED
  ELSE LET later == scan_rules_last(text, c + 1) IN
         IF later # UNCATEGORIZED THEN later
         ELSE IF search_patterns(compiled_patterns[c], text, 1)
           THEN CATEGORY_RULES[c].category
           ELSE UNCATEGORIZED

\* The outer loop of _classify_transaction from category c on: the first
\* category one of whose patterns is found, the sentinel when none is.
RECURSIVE scan_rules(_, _)
scan_rules(text, c) ==
  IF c > Len(compiled_patterns) THEN UNCATEGORIZED
  ELSE IF search_patterns(compiled_patterns[c], text, 1)
    THEN CATEGORY_RULES[c].category
    ELSE scan_rules(text, c + 1)

\* TransactionClassifier._classify_transaction
classify_transaction(row) == scan_rules(combined_text(row), 1)

\* "category" in result.columns (the table is not empty where this is asked)
has_column(df, col) == col \in DOMAIN df[1]

\* classify without its test of the category a row has.
classify_every_row(df) ==
  IF empty(df) THEN df
  ELSE [i \in 1..Len(df) |->
          DropColumns(df[i], {"category"}) @@ [category |-> classify_transaction(df[i])]]

\* TransactionClassifier.classify
classify(df) ==
  IF empty(df) THEN df
  ELSE IF has_column(df, "category")
    THEN [i \in 1..Len(df) |->
            [df[i] EXCEPT !.category =
               IF df[i].category # UNCATEGORIZED THEN df[i].category
               ELSE classify_transaction(df[i])]]
    ELSE [i \in 1..Len(df) |-> df[i] @@ [category |-> classify_transaction(df[i])]]

----------------------------------------------------------------------------
(* Fixed strings and tables of the parsers *)

TRADE_SUCCESS == <<"u4ea4","u6613","u6210","u529f">>
PAY_SUCCESS == <<"u652f","u4ed8","u6210","u529f">>
KW_TRANSFER == <<"u8f6c","u8d26">>
KW_RED_PACKET == <<"u7ea2","u5305">>
CAT_TRANSFER_RED_PACKET == <<"u8f6c","u8d26","u7ea2","u5305">>
TYPE_MERCHANT == <<"u5546","u6237","u6d88","u8d39">>
KW_CONSUME == <<"u6d88","u8d39">>
KW_ALIPAY == <<"u652f","u4ed8","u5b9d">>
KW_WECHAT == <<"u5fae","u4fe1">>
CAT_SHOPPING_DEFAULT == <<"u8d2d","u7269","u6d88","u8d39">>
YEN == <<"u00a5">>
FULLWIDTH_YEN == <<"uffe5">>

\* AlipayParser._standardize_category: known_categories
known_categories ==
  {<<"u9910","u996e","u7f8e","u98df">>, <<"u670d","u9970","u7f8e","u5bb9">>,
   <<"u751f","u6d3b","u65e5","u7528">>, <<"u4ea4","u901a","u51fa","u884c">>,
   <<"u901a","u4fe1","u7269","u6d41">>, <<"u4f11","u95f2","u5a31","u4e50">>,
   <<"u533b","u7597","u5065","u5eb7">>, <<"u6559","u80b2","u57f9","u8bad">>,
   <<"u623f","u5c4b","u7269","u4e1a">>, <<"u6c34","u7535","u7164">>,
   <<"u6295","u8d44","u7406","u8d22">>, <<"u8f6c","u8d26","u7ea2","u5305">>, <<"u5176","u4ed6">>}

\* AlipayParser._standardize_category: category_mapping, in the order of the dict
category_mapping ==
  << [key |-> <<"u9910","u996e">>, value |-> <<"u9910","u996e","u7f8e","u98df">>],
     [key |-> <<"u7f8e","u98df">>, value |-> <<"u9910","u996e","u7f8e","u98df">>],
     [key |-> <<"u670d","u9970">>, value |-> <<"u670d","u9970","u7f8e","u5bb9">>],
     [key |-> <<"u7f8e","u5bb9">>, value |-> <<"u670d","u9970","u7f8e","u5bb9">>],
     [key |-> <<"u65e5","u7528">>, value |-> <<"u751f","u6d3b","u65e5","u7528">>],
     [key |-> <<"u751f","u6d3b">>, value |-> <<"u751f","u6d3b","u65e5","u7528">>],
     [key |-> <<"u767e","u8d27">>, value |-> <<"u751f","u6d3b","u65e5","u7528">>],
     [key |-> <<"u4ea4","u901a">>, value |-> <<"u4ea4","u901a","u51fa","u884c">>],
     [key |-> <<"u51fa","u884c">>, value |-> <<"u4ea4","u901a","u51fa","u884c">>],
     [key |-> <<"u6253","u8f66">>, value |-> <<"u4ea4","u901a","u51fa","u884c">>],
     [key |-> <<"u5730","u94c1">>, value |-> <<"u4ea4","u901a","u51fa","u884c">>],
     [key |-> <<"u516c","u4ea4">>, value |-> <<"u4ea4","u901a","u51fa","u884c">>],
     [key |-> <<"u901a","u4fe1">>, value |-> <<"u901a","u4fe1","u7269","u6d41">>],
     [key |-> <<"u7269","u6d41">>, value |-> <<"u901a","u4fe1","u7269","u6d41">>],
     [key |-> <<"u5feb","u9012">>, value |-> <<"u901a","u4fe1","u7269","u6d41">>],
     [key |-> <<"u5a31","u4e50">>, value |-> <<"u4f11","u95f2","u5a31","u4e50">>],
     [key |-> <<"u4f11","u95f2">>, value |-> <<"u4f11","u95f2","u5a31","u4e50">>],
     [key |-> <<"u533b","u7597">>, value |-> <<"u533b","u7597","u5065","u5eb7">>],
     [key |-> <<"u5065","u5eb7">>, value |-> <<"u533b","u7597","u5065","u5eb7">>],
     [key |-> <<"u836f","u5e97">>, value |-> <<"u533b","u7597","u5065","u5eb7">>],
     [key |-> <<"u533b","u9662">>, value |-> <<"u533b","u7597","u5065","u5eb7">>],
     [key |-> <<"u6559","u80b2">>, value |-> <<"u6559","u80b2","u57f9","u8bad">>],
     [key |-> <<"u57f9","u8bad">>, value |-> <<"u6559","u80b2","u57f9","u8bad">>],
     [key |-> <<"u5b66","u4e60">>, value |-> <<"u6559","u80b2","u57f9","u8bad">>],
     [key |-> <<"u7269","u4e1a">>, value |-> <<"u623f","u5c4b","u7269","u4e1a">>],
     [key |-> <<"u623f","u79df">>, value |-> <<"u623f","u5c4b","u7269","u4e1a">>],
     [key |-> <<"u4f4f","u623f">>, value |-> <<"u623f","u5c4b","u7269","u4e1a">>],
     [key |-> <<"u6c34","u7535">>, value |-> <<"u6c34","u7535","u7164">>],
     [key |-> <<"u7164","u6c14">>, value |-> <<"u6c34","u7535","u7164">>],
     [key |-> <<"u7535","u8d39">>, value |-> <<"u6c34","u7535","u7164">>],
     [key |-> <<"u6c34","u8d39">>, value |-> <<"u6c34","u7535","u7164">>],
     [key |-> <<"u6295","u8d44">>, value |-> <<"u6295","u8d44","u7406","u8d22">>],
     [key |-> <<"u7406","u8d22">>, value |-> <<"u6295","u8d44","u7406","u8d22">>],
     [key |-> <<"u57fa","u91d1">>, value |-> <<"u6295","u8d44","u7406","u8d22">>],
     [key |-> <<"u80a1","u7968">>, value |-> <<"u6295","u8d44","u7406","u8d22">>],
     [key |-> <<"u8f6c","u8d26">>, value |-> <<"u8f6c","u8d26","u7ea2","u5305">>],
     [key |-> <<"u7ea2","u5305">>, value |-> <<"u8f6c","u8d26","u7ea2","u5305">>] >>

\* WechatParser._infer_category: its `if any(keyword in text ...)` tests, in order
WECHAT_RULES ==
  << [category |-> <<"u4ea4","u901a","u51fa","u884c">>, keywords |-> <<
       <<"1","2","3","0","6">>, <<"u94c1","u8def">>, <<"u706b","u8f66","u7968">>,
       <<"u9ad8","u94c1">>, <<"u673a","u7968">>, <<"u822a","u7a7a">>, <<"u98de","u673a">>,
       <<"u643a","u7a0b">>, <<"u53bb","u54ea","u513f">>, <<"u540c","u7a0b">>,
       <<"u98de","u732a">>, <<"u9014","u725b">>, <<"u9a6c","u8702","u7a9d">>,
       <<"u4e2d","u94c1","u7f51","u7edc">>, <<"u94c1","u65c5","u79d1","u6280">>,
       <<"u5ba2","u8fd0">> >>],
     [category |-> <<"u4ea4","u901a","u51fa","u884c">>, keywords |-> <<
       <<"u5730","u94c1">>, <<"u516c","u4ea4">>, <<"u6253","u8f66">>, <<"u6ef4","u6ef4">>,
       <<"u51fa","u79df","u8f66">>, <<"u9a91","u8f66">>, <<"u5355","u8f66">>,
       <<"u505c","u8f66">>, <<"u52a0","u6cb9">>, <<"u5145","u7535">>, <<"u54c8","u5570">>,
       <<"u9752","u6854">>, <<"u7f8e","u56e2","u9a91","u884c">>, <<"u6469","u62dc">> >>],
     [category |-> <<"u6559","u80b2","u57f9","u8bad">>, keywords |-> <<
       <<"u5927","u5b66">>, <<"u5b66","u9662">>, <<"u5b66","u6821">>, <<"u6559","u80b2">>,
       <<"u57f9","u8bad">>, <<"u5b66","u4e60">>, <<"u8bfe","u7a0b">>, <<"u4e66","u5e97">>,
       <<"u8003","u8bd5">>, <<"u62a5","u540d">>, <<"u5b66","u800c","u601d">>,
       <<"u65b0","u4e1c","u65b9">>, <<"u7f51","u6613","u4e91","u8bfe","u5802">>,
       <<"u6155","u8bfe">>, <<"u817e","u8baf","u8bfe","u5802">>, <<"u6253","u5370">> >>],
     [category |-> <<"u9910","u996e","u7f8e","u98df">>, keywords |-> <<
       <<"u9ea6","u5f53","u52b3">>, <<"u80af","u5fb7","u57fa">>, <<"u661f","u5df4","u514b">>,
       <<"u5496","u5561">>, <<"u5976","u8336">>, <<"u9910","u996e">>, <<"u7f8e","u98df">>,
       <<"u98df","u54c1">>, <<"u5916","u5356">>, <<"u997f","u4e86","u4e48">>,
       <<"u7f8e","u56e2">>, <<"u997f","u4e86","u4e48">>, <<"u559c","u8336">>,
       <<"u5948","u96ea">>, <<"u745e","u5e78">>, <<"u5fc5","u80dc","u5ba2">>,
       <<"u6c49","u5821","u738b">>, <<"u534e","u83b1","u58eb">>, <<"u6d77","u5e95","u635e">>,
       <<"u9738","u738b","u8336","u59ec">>, <<"u8336","u767e","u9053">>,
       <<"u871c","u96ea","u51b0","u57ce">>, <<"u6caa","u4e0a","u963f","u59e8">>,
       <<"u4e32","u4e32">>, <<"u706b","u9505">>, <<"u70e7","u70e4">>, <<"u70e4","u8089">>,
       <<"u5c0f","u5403">>, <<"u9762","u9986">>, <<"u7c73","u7c89">>,
       <<"u9ebb","u8fa3","u70eb">>, <<"u6599","u7406","u5e97">>,
       <<"u65e5","u672c","u6599","u7406">>, <<"u97e9","u56fd","u6599","u7406">> >>],
     [category |-> <<"u8d2d","u7269","u6d88","u8d39">>, keywords |-> <<
       <<"u8d85","u5e02">>, <<"u4fbf","u5229","u5e97">>, <<"u8d85","u7ea7","u5e02","u573a">>,
       <<"u5356","u573a">>, <<"u4eac","u4e1c">>, <<"u6dd8","u5b9d">>, <<"u5929","u732b">>,
       <<"u62fc","u591a","u591a">>, <<"u8d2d","u7269">>, <<"u767e","u8d27">>,
       <<"u670d","u88c5">>, <<"u7535","u5668">>, <<"u6c38","u8f89">>, <<"u76d2","u9a6c">>,
       <<"u5c48","u81e3","u6c0f">>, <<"u6c83","u5c14","u739b">>, <<"u5bb6","u4e50","u798f">>,
       <<"u82cf","u679c">>, <<"u5927","u6da6","u53d1">>, <<"u7269","u7f8e">>, <<"o","l","e">>,
       <<"u5c71","u59c6">>, <<"u58f9","u5ea6">>, <<"u82cf","u5b81">>, <<"u56fd","u7f8e">>,
       <<"u534e","u6da6">> >>],
     [category |-> <<"u751f","u6d3b","u65e5","u7528">>, keywords |-> <<
       <<"u4fbf","u5229">>, <<"u767e","u8d27">>, <<"u65e5","u7528">>, <<"u5bb6","u5c45">>,
       <<"u751f","u6d3b">>, <<"u7f8e","u5b9c","u4f73">>, <<"u7f57","u68ee">>,
       <<"7","-","1","1">>, <<"u5168","u5bb6">>, <<"u96f6","u98df">>, <<"u6709","u9e23">>,
       <<"u552e","u8d27","u673a">>, <<"u6587","u4f53">>, <<"u6587","u4f53","u5e97">>,
       <<"u7535","u52a8","u8f66">> >>],
     [category |-> <<"u901a","u8baf","u8bdd","u8d39">>, keywords |-> <<
       <<"u8bdd","u8d39">>, <<"u5145","u503c">>, <<"u6d41","u91cf">>, <<"u5bbd","u5e26">>,
       <<"u901a","u8baf">>, <<"u79fb","u52a8">>, <<"u8054","u901a">>, <<"u7535","u4fe1">> >>],
     [category |-> <<"u4f11","u95f2","u5a31","u4e50">>, keywords |-> <<
       <<"u7535","u5f71">>, <<"k","t","v">>, <<"u6e38","u620f">>, <<"u89c6","u9891">>,
       <<"u97f3","u4e50">>, <<"u5a31","u4e50">>, <<"u817e","u8baf","u89c6","u9891">>,
       <<"u7231","u5947","u827a">>, <<"u4f18","u9177">>, <<"u54d4","u54e9","u54d4","u54e9">>,
       <<"b","i","l","i","b","i","l","i">>, <<"u6296","u97f3">>, <<"u5feb","u624b">>,
       <<"u6597","u9c7c">>, <<"u864e","u7259">>, <<"u516c","u56ed">>, <<"u82b1","u6d77">>,
       <<"u666f","u533a">>, <<"u6e38","u4e50","u56ed">>, <<"u666f","u70b9">>,
       <<"u95e8","u7968">>, <<"u767e","u8349","u56ed">> >>],
     [category |-> <<"u533b","u7597","u5065","u5eb7">>, keywords |-> <<
       <<"u533b","u9662">>, <<"u836f","u5e97">>, <<"u8bca","u6240">>, <<"u533b","u7597">>,
       <<"u5065","u5eb7">>, <<"u836f","u623f">>, <<"u517b","u751f">>, <<"u4f53","u68c0">> >>],
     [category |-> <<"u6c34","u7535","u7164">>, keywords |-> <<
       <<"u7535","u8d39">>, <<"u6c34","u8d39">>, <<"u71c3","u6c14">>,
       <<"u6c34","u7535","u7f51">>, <<"u7f34","u8d39">>, <<"u56fd","u5bb6","u7535","u7f51">>,
       <<"u5357","u65b9","u7535","u7f51">> >>],
     [category |-> <<"u623f","u5c4b","u7269","u4e1a">>, keywords |-> <<
       <<"u623f","u79df">>, <<"u7269","u4e1a">>, <<"u4f4f","u623f">>, <<"u623f","u4ea7">>,
       <<"u81ea","u5982">>, <<"u8d1d","u58f3">>, <<"u94fe","u5bb6">> >>] >>

\* WechatParser._infer_from_counterparty: its `if any(kw in text ...)` tests, in order
WECHAT_COUNTERPARTY_RULES ==
  << [category |-> <<"u4ea4","u901a","u51fa","u884c">>, keywords |-> <<
       <<"1","2","3","0","6">>, <<"u94c1","u8def">>, <<"u706b","u8f66">>, <<"u9ad8","u94c1">>,
       <<"u673a","u7968">>, <<"u822a","u7a7a">>, <<"u643a","u7a0b">>,
       <<"u53bb","u54ea","u513f">>, <<"u540c","u7a0b">>, <<"u98de","u732a">>,
       <<"u9014","u725b">>, <<"u4e2d","u94c1">>, <<"u94c1","u65c5">>, <<"u5ba2","u8fd0">> >>],
     [category |-> <<"u6559","u80b2","u57f9","u8bad">>, keywords |-> <<
       <<"u5927","u5b66">>, <<"u5b66","u9662">>, <<"u5b66","u6821">>, <<"u6559","u80b2">>,
       <<"u57f9","u8bad">>, <<"u5b66","u4e60">>, <<"u8bfe","u7a0b">>, <<"u4e66","u5e97">>,
       <<"u8003","u8bd5">>, <<"u62a5","u540d">>, <<"u5b66","u800c","u601d">>,
       <<"u65b0","u4e1c","u65b9">>, <<"u7f51","u6613","u4e91","u8bfe","u5802">>,
       <<"u6155","u8bfe">>, <<"u817e","u8baf","u8bfe","u5802">>, <<"u6253","u5370">> >>],
     [category |-> <<"u9910","u996e","u7f8e","u98df">>, keywords |-> <<
       <<"u9910","u996e">>, <<"u5496","u5561">>, <<"u8336">>, <<"u9ea6","u5f53","u52b3">>,
       <<"u80af","u5fb7","u57fa">>, <<"u661f","u5df4","u514b">>, <<"u6c49","u5821">>,
       <<"u62ab","u8428">>, <<"u559c","u8336">>, <<"u5948","u96ea">>, <<"u745e","u5e78">>,
       <<"u5fc5","u80dc","u5ba2">>, <<"u6d77","u5e95","u635e">>,
       <<"u9738","u738b","u8336","u59ec">>, <<"u8336","u767e","u9053">>,
       <<"u871c","u96ea","u51b0","u57ce">>, <<"u534e","u83b1","u58eb">>,
       <<"u6caa","u4e0a","u963f","u59e8">>, <<"u4e32","u4e32">>, <<"u706b","u9505">>,
       <<"u70e7","u70e4">>, <<"u70e4","u8089">>, <<"u5c0f","u5403">>, <<"u9762","u9986">>,
       <<"u7c73","u7c89">>, <<"u9ebb","u8fa3","u70eb">>, <<"u6599","u7406","u5e97">>,
       <<"u65e5","u672c","u6599","u7406">>, <<"u97e9","u56fd","u6599","u7406">> >>],
     [category |-> <<"u8d2d","u7269","u6d88","u8d39">>, keywords |-> <<
       <<"u8d85","u5e02">>, <<"u4fbf","u5229","u5e97">>, <<"u8d85","u7ea7","u5e02","u573a">>,
       <<"u5356","u573a">>, <<"u5c48","u81e3","u6c0f">>, <<"u6c83","u5c14","u739b">>,
       <<"u5bb6","u4e50","u798f">>, <<"u6c38","u8f89">>, <<"u76d2","u9a6c">>,
       <<"u82cf","u679c">>, <<"u5927","u6da6","u53d1">>, <<"u7269","u7f8e">>, <<"o","l","e">>,
       <<"u5c71","u59c6">>, <<"u7f8e","u5b9c","u4f73">>, <<"u7f57","u68ee">>,
       <<"7","-","1","1">>, <<"u5168","u5bb6">>, <<"u58f9","u5ea6">>, <<"u82cf","u5b81">>,
       <<"u56fd","u7f8e">>, <<"u534e","u6da6">> >>],
     [category |-> <<"u8d2d","u7269","u6d88","u8d39">>, keywords |-> <<
       <<"u4eac","u4e1c">>, <<"u6dd8","u5b9d">>, <<"u5929","u732b">>,
       <<"u62fc","u591a","u591a">>, <<"u6296","u97f3","u7535","u5546">>,
       <<"u5c0f","u7ea2","u4e66">>, <<"u82cf","u5b81">>, <<"u56fd","u7f8e">> >>],
     [category |-> <<"u751f","u6d3b","u65e5","u7528">>, keywords |-> <<
       <<"u65e5","u7528">>, <<"u5bb6","u5c45">>, <<"u751f","u6d3b">>, <<"u96f6","u98df">>,
       <<"u6709","u9e23">>, <<"u552e","u8d27","u673a">>, <<"u6587","u4f53">>,
       <<"u6587","u4f53","u5e97">>, <<"u7535","u52a8","u8f66">> >>],
     [category |-> <<"u670d","u9970","u7f8e","u5bb9">>, keywords |-> <<
       <<"u670d","u88c5">>, <<"u670d","u9970">>, <<"u978b">>, <<"u5e3d">>, <<"b","a","g">>,
       <<"s","h","o","p">>, <<"s","t","o","r","e">>, <<"u7f8e","u5bb9">>, <<"u7f8e","u53d1">>,
       <<"u7f8e","u7532">>, <<"u5316","u5986">>, <<"u62a4","u80a4","u54c1">> >>],
     [category |-> <<"u4ea4","u901a","u51fa","u884c">>, keywords |-> <<
       <<"u51fa","u884c">>, <<"u4ea4","u901a">>, <<"u6253","u8f66">>, <<"u5355","u8f66">>,
       <<"u505c","u8f66">>, <<"u52a0","u6cb9">>, <<"u54c8","u5570">>, <<"u9752","u6854">>,
       <<"u7f8e","u56e2","u9a91","u884c">>, <<"u6469","u62dc">>, <<"u6ef4","u6ef4">> >>],
     [category |-> <<"u901a","u8baf","u8bdd","u8d39">>, keywords |-> <<
       <<"u8bdd","u8d39">>, <<"u5145","u503c">>, <<"u6d41","u91cf">>, <<"u5bbd","u5e26">>,
       <<"u901a","u8baf">>, <<"u79fb","u52a8">>, <<"u8054","u901a">>, <<"u7535","u4fe1">> >>],
     [category |-> <<"u4f11","u95f2","u5a31","u4e50">>, keywords |-> <<
       <<"u7535","u5f71">>, <<"k","t","v">>, <<"u6e38","u620f">>, <<"u89c6","u9891">>,
       <<"u97f3","u4e50">>, <<"u5a31","u4e50">>, <<"u817e","u8baf","u89c6","u9891">>,
       <<"u7231","u5947","u827a">>, <<"u4f18","u9177">>, <<"b","i","l","i","b","i","l","i">>,
       <<"u6296","u97f3">>, <<"u5feb","u624b">>, <<"u6597","u9c7c">>, <<"u864e","u7259">>,
       <<"u516c","u56ed">>, <<"u82b1","u6d77">>, <<"u666f","u533a">>,
       <<"u6e38","u4e50","u56ed">>, <<"u666f","u70b9">>, <<"u95e8","u7968">>,
       <<"u767e","u8349","u56ed">> >>] >>

\* CCBParser._infer_category: its tests on the summary alone, in order
CCB_SUMMARY_RULES ==
  << [category |-> <<"u8f6c","u8d26","u7ea2","u5305">>, keywords |-> <<
       <<"u5b58","u5165">>, <<"u5b58","u6b3e">>, <<"u8f6c","u5165">> >>],
     [category |-> <<"u5176","u4ed6">>, keywords |-> <<
       <<"u652f","u53d6">>, <<"u53d6","u73b0">>, <<"u63d0","u73b0">> >>] >>

\* CCBParser._infer_category: its `if any(keyword in text ...)` tests, in order
CCB_RULES ==
  << [category |-> <<"u4ea4","u901a","u51fa","u884c">>, keywords |-> <<
       <<"1","2","3","0","6">>, <<"u94c1","u8def">>, <<"u706b","u8f66","u7968">>,
       <<"u9ad8","u94c1">>, <<"u673a","u7968">>, <<"u822a","u7a7a">>, <<"u98de","u673a">>,
       <<"u643a","u7a0b">>, <<"u53bb","u54ea","u513f">>, <<"u540c","u7a0b">>,
       <<"u98de","u732a">>, <<"u9014","u725b">>, <<"u4e2d","u94c1">>, <<"u94c1","u65c5">>,
       <<"u5ba2","u8fd0">> >>],
     [category |-> <<"u9910","u996e","u7f8e","u98df">>, keywords |-> <<
       <<"u9910","u996e">>, <<"u98df","u5802">>, <<"u9ea6","u5f53","u52b3">>,
       <<"u80af","u5fb7","u57fa">>, <<"u661f","u5df4","u514b">>, <<"u5496","u5561">>,
       <<"u7f8e","u98df">>, <<"u98df","u54c1">>, <<"u559c","u8336">>, <<"u5948","u96ea">>,
       <<"u745e","u5e78">>, <<"u5fc5","u80dc","u5ba2">>, <<"u534e","u83b1","u58eb">>,
       <<"u6d77","u5e95","u635e">>, <<"u9738","u738b","u8336","u59ec">>,
       <<"u8336","u767e","u9053">>, <<"u871c","u96ea","u51b0","u57ce">>,
       <<"u6caa","u4e0a","u963f","u59e8">> >>],
     [category |-> <<"u8d2d","u7269","u6d88","u8d39">>, keywords |-> <<
       <<"u8d85","u5e02">>, <<"u4fbf","u5229","u5e97">>, <<"u767e","u8d27">>,
       <<"u8d2d","u7269">>, <<"u5c48","u81e3","u6c0f">>, <<"u6c83","u5c14","u739b">>,
       <<"u5bb6","u4e50","u798f">>, <<"u6c38","u8f89">>, <<"u76d2","u9a6c">>,
       <<"u82cf","u679c">>, <<"u5927","u6da6","u53d1">>, <<"u7269","u7f8e">>, <<"o","l","e">>,
       <<"u5c71","u59c6">>, <<"u7f8e","u5b9c","u4f73">>, <<"u7f57","u68ee">>,
       <<"7","-","1","1">>, <<"u5168","u5bb6">> >>],
     [category |-> <<"u8d2d","u7269","u6d88","u8d39">>, keywords |-> <<
       <<"u4eac","u4e1c">>, <<"u6dd8","u5b9d">>, <<"u5929","u732b">>,
       <<"u62fc","u591a","u591a">>, <<"u6296","u97f3">>, <<"u5c0f","u7ea2","u4e66">> >>],
     [category |-> <<"u751f","u6d3b","u65e5","u7528">>, keywords |-> <<
       <<"u65e5","u7528">>, <<"u5bb6","u5c45">>, <<"u751f","u6d3b">>, <<"u96f6","u98df">>,
       <<"u6709","u9e23">> >>],
     [category |-> <<"u4ea4","u901a","u51fa","u884c">>, keywords |-> <<
       <<"u4ea4","u901a">>, <<"u51fa","u884c">>, <<"u505c","u8f66">>, <<"u52a0","u6cb9">>,
       <<"u5730","u94c1">>, <<"u516c","u4ea4">>, <<"u6253","u8f66">>, <<"u9a91","u8f66">>,
       <<"u54c8","u5570">>, <<"u9752","u6854">>, <<"u7f8e","u56e2","u9a91","u884c">>,
       <<"u6469","u62dc">> >>],
     [category |-> <<"u901a","u8baf","u8bdd","u8d39">>, keywords |-> <<
       <<"u8bdd","u8d39">>, <<"u5145","u503c">>, <<"u901a","u8baf">>, <<"u5bbd","u5e26">>,
       <<"u79fb","u52a8">>, <<"u8054","u901a">>, <<"u7535","u4fe1">> >>],
     [category |-> <<"u4f11","u95f2","u5a31","u4e50">>, keywords |-> <<
       <<"u7535","u5f71">>, <<"k","t","v">>, <<"u6e38","u620f">>, <<"u89c6","u9891">>,
       <<"u97f3","u4e50">>, <<"u5a31","u4e50">>, <<"u817e","u8baf","u89c6","u9891">>,
       <<"u7231","u5947","u827a">>, <<"u4f18","u9177">>, <<"b","i","l","i","b","i","l","i">>,
       <<"u6296","u97f3">>, <<"u5feb","u624b">> >>],
     [category |-> <<"u6559","u80b2","u57f9","u8bad">>, keywords |-> <<
       <<"u6559","u80b2">>, <<"u57f9","u8bad">>, <<"u5b66","u4e60">>, <<"u8bfe","u7a0b">>,
       <<"u4e66","u5e97">> >>],
     [category |-> <<"u533b","u7597","u5065","u5eb7">>, keywords |-> <<
       <<"u533b","u9662">>, <<"u836f","u5e97">>, <<"u8bca","u6240">>, <<"u533b","u7597">>,
       <<"u5065","u5eb7">>, <<"u836f","u623f">>, <<"u4f53","u68c0">> >>] >>

\* CCBParser._infer_consumption_type: its `if any(kw in text ...)` tests, in order
CCB_CONSUMPTION_RULES ==
  << [category |-> <<"u4ea4","u901a","u51fa","u884c">>, keywords |-> <<
       <<"1","2","3","0","6">>, <<"u94c1","u8def">>, <<"u706b","u8f66","u7968">>,
       <<"u9ad8","u94c1">>, <<"u673a","u7968">>, <<"u822a","u7a7a">>, <<"u98de","u673a">>,
       <<"u643a","u7a0b">>, <<"u53bb","u54ea","u513f">>, <<"u540c","u7a0b">>,
       <<"u98de","u732a">>, <<"u9014","u725b">>, <<"u9a6c","u8702","u7a9d">>,
       <<"u4e2d","u94c1">>, <<"u94c1","u65c5">>, <<"u5ba2","u8fd0">> >>],
     [category |-> <<"u4ea4","u901a","u51fa","u884c">>, keywords |-> <<
       <<"u5730","u94c1">>, <<"u516c","u4ea4">>, <<"u6253","u8f66">>, <<"u6ef4","u6ef4">>,
       <<"u51fa","u79df","u8f66">>, <<"u9a91","u8f66">>, <<"u5355","u8f66">>,
       <<"u505c","u8f66">>, <<"u52a0","u6cb9">>, <<"u5145","u7535">>, <<"u54c8","u5570">>,
       <<"u9752","u6854">>, <<"u7f8e","u56e2","u9a91","u884c">>, <<"u6469","u62dc">> >>],
     [category |-> <<"u9910","u996e","u7f8e","u98df">>, keywords |-> <<
       <<"u9910">>, <<"u996e">>, <<"u5496","u5561">>, <<"u8336">>, <<"u9ea6","u5f53","u52b3">>,
       <<"u80af","u5fb7","u57fa">>, <<"u661f","u5df4","u514b">>, <<"u6c49","u5821">>,
       <<"u62ab","u8428">>, <<"u7f8e","u98df">>, <<"u98df","u54c1">>, <<"u98df","u5802">>,
       <<"u559c","u8336">>, <<"u5948","u96ea">>, <<"u745e","u5e78">>,
       <<"u5fc5","u80dc","u5ba2">>, <<"u534e","u83b1","u58eb">>, <<"u6d77","u5e95","u635e">>,
       <<"u9738","u738b","u8336","u59ec">>, <<"u8336","u767e","u9053">>,
       <<"u871c","u96ea","u51b0","u57ce">>, <<"u6caa","u4e0a","u963f","u59e8">> >>],
     [category |-> <<"u8d2d","u7269","u6d88","u8d39">>, keywords |-> <<
       <<"u8d85","u5e02">>, <<"u4fbf","u5229","u5e97">>, <<"u5c48","u81e3","u6c0f">>,
       <<"u6c83","u5c14","u739b">>, <<"u5bb6","u4e50","u798f">>, <<"u6c38","u8f89">>,
       <<"u76d2","u9a6c">>, <<"u767e","u8d27">>, <<"u8d2d","u7269">>, <<"u82cf","u679c">>,
       <<"u5927","u6da6","u53d1">>, <<"u7269","u7f8e">>, <<"o","l","e">>, <<"u5c71","u59c6">>,
       <<"u7f8e","u5b9c","u4f73">>, <<"u7f57","u68ee">>, <<"7","-","1","1">>,
       <<"u5168","u5bb6">> >>],
     [category |-> <<"u8d2d","u7269","u6d88","u8d39">>, keywords |-> <<
       <<"u4eac","u4e1c">>, <<"u6dd8","u5b9d">>, <<"u5929","u732b">>,
       <<"u62fc","u591a","u591a">>, <<"u6296","u97f3">>, <<"u5c0f","u7ea2","u4e66">>,
       <<"u82cf","u5b81">>, <<"u56fd","u7f8e">> >>],
     [category |-> <<"u751f","u6d3b","u65e5","u7528">>, keywords |-> <<
       <<"u65e5","u7528">>, <<"u5bb6","u5c45">>, <<"u751f","u6d3b">>, <<"u96f6","u98df">>,
       <<"u6709","u9e23">> >>],
     [category |-> <<"u670d","u9970","u7f8e","u5bb9">>, keywords |-> <<
       <<"u670d","u88c5">>, <<"u670d","u9970">>, <<"u978b">>, <<"u5e3d">>, <<"u7f8e","u5bb9">>,
       <<"u7f8e","u53d1">>, <<"u7f8e","u7532">>, <<"u5316","u5986">>, <<"b","a","g">>,
       <<"s","h","o","p">>, <<"s","t","o","r","e">>, <<"u62a4","u80a4","u54c1">> >>],
     [category |-> <<"u4f11","u95f2","u5a31","u4e50">>, keywords |-> <<
       <<"u7535","u5f71">>, <<"k","t","v">>, <<"u6e38","u620f">>, <<"u89c6","u9891">>,
       <<"u97f3","u4e50">>, <<"u5a31","u4e50">>, <<"u817e","u8baf","u89c6","u9891">>,
       <<"u7231","u5947","u827a">>, <<"u4f18","u9177">>, <<"b","i","l","i","b","i","l","i">>,
       <<"u6296","u97f3">>, <<"u5feb","u624b">> >>],
     [category |-> <<"u901a","u8baf","u8bdd","u8d39">>, keywords |-> <<
       <<"u8bdd","u8d39">>, <<"u5145","u503c">>, <<"u901a","u8baf">>, <<"u5bbd","u5e26">>,
       <<"u6d41","u91cf">>, <<"u79fb","u52a8">>, <<"u8054","u901a">>, <<"u7535","u4fe1">> >>],
     [category |-> <<"u6559","u80b2","u57f9","u8bad">>, keywords |-> <<
       <<"u6559","u80b2">>, <<"u57f9","u8bad">>, <<"u5b66","u4e60">>, <<"u8bfe","u7a0b">>,
       <<"u4e66","u5e97">> >>],
     [category |-> <<"u533b","u7597","u5065","u5eb7">>, keywords |-> <<
       <<"u533b","u9662">>, <<"u836f","u5e97">>, <<"u8bca","u6240">>, <<"u533b","u7597">>,
       <<"u5065","u5eb7">>, <<"u836f","u623f">>, <<"u4f53","u68c0">> >>] >>

----------------------------------------------------------------------------
(* Cells of a raw table *)

Digits == <<"0","1","2","3","4","5","6","7","8","9">>
DigitValue == [c \in {Digits[i] : i \in 1..Len(Digits)} |->
                 (CHOOSE i \in 1..Len(Digits) : Digits[i] = c) - 1]

IsDigits(s) == \A i \in 1..Len(s) : s[i] \in DOMAIN DigitValue

\* The number a text of digits writes.
RECURSIVE DigitsValue(_)
DigitsValue(s) ==
  IF s = <<>> THEN 0 ELSE DigitsValue(SubSeq(s, 1, Len(s) - 1)) * 10 + DigitValue[s[Len(s)]]

\* Where the first "." of s is, Len(s) + 1 when it has none.
PointAt(s) ==
  IF \E i \in 1..Len(s) : s[i] = "."
    THEN CHOOSE i \in 1..Len(s) : s[i] = "." /\ \A j \in 1..(i - 1) : s[j] # "."
    ELSE Len(s) + 1

\* pd.to_numeric(errors="coerce") of one text cell, in mills: blanks around it
\* aside, an optional sign, digits, and optionally "." and digits, with a digit
\* somewhere; any other text, and a missing cell, is a missing number. (The
\* cells of the model have at most three decimals; exponents and the words
\* float() reads as infinities are outside it.)
to_numeric(cell) ==
  IF cell = NaN THEN NaNAmount
  ELSE
    LET s == Strip(cell)
        signed == s # <<>> /\ Head(s) \in {"-", "+"}
        body == IF signed THEN Tail(s) ELSE s
        point == PointAt(body)
        whole == SubSeq(body, 1, point - 1)
        frac == SubSeq(body, point + 1, Len(body))
        mills == SubSeq(frac \o <<"0","0","0">>, 1, 3)
        value == DigitsValue(whole) * 1000 + DigitsValue(mills)
    IN IF IsDigits(whole) /\ IsDigits(frac) /\ Len(whole) + Len(frac) > 0
         THEN (IF signed /\ Head(s) = "-" THEN 0 - value ELSE value)
         ELSE NaNAmount

\* Series.fillna(0)
fillna0(amount) == IF amount = NaNAmount THEN 0 ELSE amount

\* Series.abs()
abs(amount) == IF amount < 0 THEN 0 - amount ELSE amount

\* str.replace(old, "", regex=False): every occurrence of the character old
\* taken out.
remove_char(s, old) == SelectSeq(s, LAMBDA c : c # old)

\* The sign set by negation, without the absolute value first.
reconcile_sign_negating(direction, amount) ==
  IF direction = DIR_EXPENSE THEN amount * (-1) ELSE amount

\* The two .loc assignments that follow the amount's conversion in every
\* parser and in _normalize_dataframe: a row whose direction is "zhichu" gets
\* minus the absolute amount, one whose direction is "shouru" the absolute
\* amount, any other row keeps its amount.
reconcile_sign(direction, amount) ==
  IF direction = DIR_EXPENSE THEN abs(amount) * (-1)
  ELSE IF direction = DIR_INCOME THEN abs(amount)
  ELSE amount

\* a + " " + b on two columns: missing when either cell is.
join2(a, b) == IF a = NaN \/ b = NaN THEN NaN ELSE a \o <<" ">> \o b

----------------------------------------------------------------------------
(* Category inference of the parsers *)

\* `any(keyword in text for keyword in keywords)`
any_in(keywords, text) == \E k \in 1..Len(keywords) : Contains(text, keywords[k])

\* A chain of `if any(...): return category` tests from test r on: the category
\* of the first test that holds, fallback when none does.
RECURSIVE first_rule(_, _, _, _)
first_rule(rules, text, r, fallback) ==
  IF r > Len(rules) THEN fallback
  ELSE IF any_in(rules[r].keywords, text) THEN rules[r].category
  ELSE first_rule(rules, text, r + 1, fallback)

\* `"" if pd.isna(x) else str(x).strip()`
clean_text(x) == IF x = NaN THEN <<>> ELSE Strip(x)

\* AlipayParser._standardize_category
RECURSIVE map_category(_, _)
map_category(category, m) ==
  IF m > Len(category_mapping) THEN category
  ELSE IF Contains(category, category_mapping[m].key) THEN category_mapping[m].value
  ELSE map_category(category, m + 1)

\* A value that holds no key of the table forced to the sentinel.
standardize_category_forced(category) ==
  IF category = NaN THEN UNCATEGORIZED
  ELSE LET c == Strip(category) IN
         IF c \in known_categories THEN c
         ELSE IF map_category(c, 1) = c THEN UNCATEGORIZED ELSE map_category(c, 1)

standardize_category(category) ==
  IF category = NaN THEN UNCATEGORIZED
  ELSE LET c == Strip(category) IN
         IF c \in known_categories THEN c ELSE map_category(c, 1)

\* WechatParser._infer_from_counterparty
infer_from_counterparty(counterparty, product) ==
  first_rule(WECHAT_COUNTERPARTY_RULES, Lower(counterparty \o <<" ">> \o product), 1,
             UNCATEGORIZED)

\* WechatParser._infer_category
wechat_infer_category(trans_type_, counterparty_, product_) ==
  LET trans_type == clean_text(trans_type_)
      counterparty == clean_text(counterparty_)
      product == clean_text(product_)
      text == Lower(trans_type \o <<" ">> \o counterparty \o <<" ">> \o product)
  IN IF Contains(trans_type, KW_TRANSFER) \/ Contains(text, KW_TRANSFER)
       THEN CAT_TRANSFER_RED_PACKET
     ELSE IF Contains(text, KW_RED_PACKET) THEN CAT_TRANSFER_RED_PACKET
     ELSE LET chain == first_rule(WECHAT_RULES, text, 1, NaN) IN
       IF chain # NaN THEN chain
       ELSE IF trans_type = TYPE_MERCHANT /\ counterparty # <<>> /\ counterparty # <<"/">>
         THEN infer_from_counterparty(counterparty, product)
       ELSE UNCATEGORIZED

\* CCBParser._infer_consumption_type
infer_consumption_type(description, counterparty) ==
  first_rule(CCB_CONSUMPTION_RULES, Lower(description \o <<" ">> \o counterparty), 1,
             CAT_SHOPPING_DEFAULT)

\* CCBParser._infer_category
ccb_infer_category(summary_, description_, counterparty_) ==
  LET summary == clean_text(summary_)
      description == clean_text(description_)
      counterparty == clean_text(counterparty_)
      text == Lower(summary \o <<" ">> \o description \o <<" ">> \o counterparty)
  IN IF Contains(summary, KW_CONSUME) THEN infer_consumption_type(description, counterparty)
     ELSE LET on_summary == first_rule(CCB_SUMMARY_RULES, summary, 1, NaN) IN
       IF on_summary # NaN THEN on_summary
       ELSE IF Contains(text, KW_TRANSFER) THEN CAT_TRANSFER_RED_PACKET
       ELSE LET chain == first_rule(CCB_RULES, text, 1, NaN) IN
         IF chain # NaN THEN chain
         ELSE IF Contains(text, KW_ALIPAY) \/ Contains(text, KW_WECHAT)
           THEN infer_consumption_type(description, counterparty)
         ELSE UNCATEGORIZED

----------------------------------------------------------------------------
(* Parsers: what parse() does with the table _map_columns returned *)

\* BaseParser._normalize_dataframe on one row of the parser's table.
normalize_row(platform_name, row) ==
  LET amount == fillna0(row.amount)
      direction == row.direction
  IN [time |-> row.time,
      platform |-> platform_name,
      type |-> row.type,
      counterparty |-> row.counterparty,
      amount |-> reconcile_sign(direction, amount),
      direction |-> direction,
      description |-> row.description,
      category |-> row.category,
      raw_description |-> row.raw_description,
      rid |-> row.rid]

\* BaseParser._normalize_dataframe
normalize_dataframe(platform_name, df) ==
  [i \in 1..Len(df) |-> normalize_row(platform_name, df[i])]

\* AlipayParser.parse after _map_columns. The columns the raw description is
\* composed from carry the names of the export, which _map_columns has renamed
\* and dropped: both df.get give their default "", and every row gets " ".
alipay_parse(df0) ==
  LET df1 == SelectSeq(df0, LAMBDA row : row.status = TRADE_SUCCESS)
      df2 == [i \in 1..Len(df1) |->
                LET row == df1[i]
                    amount == fillna0(to_numeric(row.amount))
                IN [row EXCEPT
                      !.amount = reconcile_sign(row.direction, amount),
                      !.category = standardize_category(row.category)]
                    @@ [platform |-> ALIPAY, raw_description |-> <<" ">>]]
  IN normalize_dataframe(ALIPAY, df2)

\* str(cell) of an amount cell: a missing cell reads "nan".
astype_str(cell) == IF cell = NaN THEN <<"n","a","n">> ELSE cell

\* WechatParser.parse after _map_columns.
wechat_parse(df0) ==
  LET df1 == SelectSeq(df0, LAMBDA row : row.status = PAY_SUCCESS)
      df2 == [i \in 1..Len(df1) |->
                LET row == df1[i]
                    text == remove_char(remove_char(remove_char(astype_str(row.amount),
                                                                 YEN[1]), FULLWIDTH_YEN[1]), ",")
                    amount == fillna0(to_numeric(text))
                IN [row EXCEPT
                      !.amount = reconcile_sign(row.direction, amount),
                      !.category = wechat_infer_category(row.type, row.counterparty,
                                                         row.description)]
                    @@ [platform |-> WECHAT,
                        raw_description |-> join2(row.description, row.counterparty)]]
  IN normalize_dataframe(WECHAT, df2)

\* CCBParser.parse after _map_columns: the direction is read off the amount.
ccb_parse(df0) ==
  LET df2 == [i \in 1..Len(df0) |->
                LET row == df0[i]
                    amount == fillna0(to_numeric(row.amount))
                IN [row EXCEPT
                      !.amount = amount,
                      !.category = ccb_infer_category(row.type, row.description,
                                                      row.counterparty)]
                    @@ [direction |-> IF amount < 0 THEN DIR_EXPENSE
                                      ELSE IF amount > 0 THEN DIR_INCOME ELSE DIR_OTHER,
                        raw_description |->
                          join2(join2(row.type, row.description), row.counterparty)]]
  IN normalize_dataframe(CCB, df2)

----------------------------------------------------------------------------
(* Deduplicator.deduplicate_by_time_window *)

\* Deduplicator.deduplicate: the pairs (retained, duplicates) a call can return.
deduplicate(df) ==
  IF empty(df) THEN {<<df, <<>>>>}
  ELSE {deduplicate_sorted(df, p) :
          p \in sort_orders([i \in 1..Len(df) |-> priority_of(df[i])])}

\* The priority of a platform that is no key of platform_priority.
DefaultPriority == 99

\* self.platform_priority.get(platform, 99)
priority_get(platform) ==
  IF known_platform(platform) THEN platform_priority(platform) ELSE DefaultPriority

\* sort_values("time")
sort_time_orders(times) == sort_values_orders(times, NaT, 1..Len(times))

\* The scan stopping at a row that is exactly window minutes later.
beyond_window_inclusive(time_i, time_j, window) ==
  time_i # NaT /\ time_j # NaT /\ time_j - time_i >= 60 * window

\* time_diff > window_minutes, time_diff the minutes from row i to row j. With
\* a missing time the difference is NaN and the comparison false.
beyond_window(time_i, time_j, window) ==
  time_i # NaT /\ time_j # NaT /\ time_j - time_i > 60 * window

\* abs(amount_i) == abs(amount_j) and counterparty_i == counterparty_j. A
\* missing value (NaN) equals nothing, itself included.
same_transaction(row_i, row_j) ==
  /\ row_i.amount # NaNAmount
  /\ row_j.amount # NaNAmount
  /\ abs(row_i.amount) = abs(row_j.amount)
  /\ notna(row_i.counterparty)
  /\ notna(row_j.counterparty)
  /\ row_i.counterparty = row_j.counterparty

\* The later row removed whatever the priorities.
removes_later_always(priority_i, priority_j) == TRUE

\* priority_i <= priority_j: the later row j is the one to remove.
removes_later(priority_i, priority_j) == priority_i <= priority_j

\* The inner loop of row i, from row j on: to_remove when the loop is left.
RECURSIVE window_inner(_, _, _, _, _)
window_inner(df, window, i, j, to_remove) ==
  IF j > Len(df) THEN to_remove
  ELSE IF j \in to_remove THEN window_inner(df, window, i, j + 1, to_remove)
  ELSE IF beyond_window(df[i].time, df[j].time, window) THEN to_remove
  ELSE IF same_transaction(df[i], df[j])
    THEN IF removes_later(priority_get(df[i].platform), priority_get(df[j].platform))
           THEN window_inner(df, window, i, j + 1, to_remove \cup {j})
           ELSE to_remove \cup {i}
    ELSE window_inner(df, window, i, j + 1, to_remove)

\* The outer loop from row i on.
RECURSIVE window_outer(_, _, _, _)
window_outer(df, window, i, to_remove) ==
  IF i > Len(df) THEN to_remove
  ELSE IF i \in to_remove THEN window_outer(df, window, i + 1, to_remove)
  ELSE window_outer(df, window, i + 1, window_inner(df, window, i, i + 1, to_remove))

\* deduplicate_by_time_window past its emptiness test, given the order p its
\* sort produced.
window_sorted(df, window, p) ==
  LET sorted == [i \in 1..Len(df) |-> df[p[i]]]
      to_remove == window_outer(sorted, window, 1, {})
  IN MaskBy(sorted, [i \in 1..Len(df) |-> i \in to_remove], FALSE, 1)

\* Deduplicator.deduplicate_by_time_window: the tables a call can return.
deduplicate_by_time_window(df, window) ==
  IF empty(df) THEN {df}
  ELSE {window_sorted(df, window, p) :
          p \in sort_time_orders([i \in 1..Len(df) |-> df[i].time])}

\* The ways `df["category"] = df.apply(..., axis=1)` can end when the table has
\* no row: apply returns what the pandas build makes of an empty table, an
\* empty series (the column is set) or a copy of the table (the assignment
\* raises ValueError).
apply_on_empty == {Returned(<<>>), Raised}

\* The ways parse() can end once _map_columns has returned df0.
alipay_parse_outcomes(df0) == {Returned(alipay_parse(df0))}

wechat_parse_outcomes(df0) ==
  LET parsed == wechat_parse(df0)
  IN IF empty(parsed) THEN apply_on_empty ELSE {Returned(parsed)}

ccb_parse_outcomes(df0) ==
  IF empty(df0) THEN apply_on_empty ELSE {Returned(ccb_parse(df0))}

----------------------------------------------------------------------------
(* _map_columns: does the export have an amount column? *)

\* AlipayParser._map_columns: its loops over df.columns, in order: the name a column
\* gets and the keywords looked for in its header.
ALIPAY_COLUMNS ==
  << [target |-> "time",
      keywords |-> <<<<"u4ea4","u6613","u65f6","u95f4">>, <<"u4ed8","u6b3e","u65f6","u95f4">>, <<"u65f6","u95f4">>>>,
      excluded |-> <<>>],
     [target |-> "amount",
      keywords |-> <<<<"u91d1","u989d">>>>,
      excluded |-> <<>>],
     [target |-> "counterparty",
      keywords |-> <<<<"u4ea4","u6613","u5bf9","u65b9">>, <<"u5bf9","u65b9">>, <<"u5546","u6237">>>>,
      excluded |-> <<>>],
     [target |-> "category",
      keywords |-> <<<<"u4ea4","u6613","u5206","u7c7b">>, <<"u5206","u7c7b">>>>,
      excluded |-> <<>>],
     [target |-> "description",
      keywords |-> <<<<"u5546","u54c1","u8bf4","u660e">>, <<"u5546","u54c1","u540d","u79f0">>, <<"u5546","u54c1">>>>,
      excluded |-> <<>>],
     [target |-> "direction",
      keywords |-> <<<<"u6536","/","u652f">>, <<"u6536","u652f">>>>,
      excluded |-> <<>>],
     [target |-> "status",
      keywords |-> <<<<"u4ea4","u6613","u72b6","u6001">>, <<"u72b6","u6001">>>>,
      excluded |-> <<>>] >>

\* WechatParser._map_columns: its loops over df.columns, in order.
WECHAT_COLUMNS ==
  << [target |-> "time",
      keywords |-> <<<<"u4ea4","u6613","u65f6","u95f4">>, <<"u65f6","u95f4">>>>,
      excluded |-> <<>>],
     [target |-> "amount",
      keywords |-> <<<<"u91d1","u989d">>>>,
      excluded |-> <<>>],
     [target |-> "counterparty",
      keywords |-> <<<<"u4ea4","u6613","u5bf9","u65b9">>, <<"u5bf9","u65b9">>, <<"u5546","u6237">>>>,
      excluded |-> <<>>],
     [target |-> "type",
      keywords |-> <<<<"u4ea4","u6613","u7c7b","u578b">>, <<"u7c7b","u578b">>>>,
      excluded |-> <<>>],
     [target |-> "description",
      keywords |-> <<<<"u5546","u54c1">>, <<"u5546","u54c1","u8bf4","u660e">>, <<"u8bf4","u660e">>>>,
      excluded |-> <<>>],
     [target |-> "direction",
      keywords |-> <<<<"u6536","/","u652f">>, <<"u6536","u652f">>>>,
      excluded |-> <<>>],
     [target |-> "status",
      keywords |-> <<<<"u5f53","u524d","u72b6","u6001">>, <<"u72b6","u6001">>>>,
      excluded |-> <<>>] >>

\* CCBParser._map_columns: its loops over df.columns, in order (the loop that looks
\* for a date in the cells when no header names the time is left out: it runs
\* before the amount's loop and names no column "amount").
CCB_COLUMNS ==
  << [target |-> "time",
      keywords |-> <<<<"u8bb0","u8d26","u65e5","u671f">>, <<"u4ea4","u6613","u65e5","u671f">>, <<"u65e5","u671f">>, <<"u65f6","u95f4">>>>,
      excluded |-> <<>>],
     [target |-> "amount",
      keywords |-> <<<<"u91d1","u989d">>>>,
      excluded |-> <<<<"u4f59","u989d">>>>],
     [target |-> "counterparty",
      keywords |-> <<<<"u5bf9","u65b9">>, <<"u6536","u6b3e","u4eba">>, <<"u4ed8","u6b3e","u4eba">>, <<"u6237","u540d">>, <<"u5bf9","u65b9","u8d26","u53f7">>>>,
      excluded |-> <<>>],
     [target |-> "type",
      keywords |-> <<<<"u6458","u8981">>, <<"u4ea4","u6613","u7c7b","u578b">>>>,
      excluded |-> <<>>],
     [target |-> "description",
      keywords |-> <<<<"u5730","u70b9">>, <<"u9644","u8a00">>, <<"u5907","u6ce8">>, <<"u8bf4","u660e">>>>,
      excluded |-> <<>>] >>

\* The name the amount column has after the rename ("jine").
COL_AMOUNT == <<"u91d1","u989d">>

\* Header rows of exports.
\* The wallet app's export.
ALIPAY_HEADERS ==
  <<<<"u4ea4","u6613","u65f6","u95f4">>,
    <<"u4ea4","u6613","u5206","u7c7b">>,
    <<"u4ea4","u6613","u5bf9","u65b9">>,
    <<"u5546","u54c1","u8bf4","u660e">>,
    <<"u6536","/","u652f">>,
    <<"u91d1","u989d","(","u5143",")">>,
    <<"u4ea4","u6613","u72b6","u6001">>>>
\* The same without the amount's column.
ALIPAY_HEADERS_NO_AMOUNT ==
  <<<<"u4ea4","u6613","u65f6","u95f4">>,
    <<"u4ea4","u6613","u5206","u7c7b">>,
    <<"u4ea4","u6613","u5bf9","u65b9">>,
    <<"u5546","u54c1","u8bf4","u660e">>,
    <<"u6536","/","u652f">>,
    <<"u4ea4","u6613","u72b6","u6001">>>>
\* An export whose only header with "jine" (amount) also holds "zhuangtai" (status).
ALIPAY_HEADERS_REFUND ==
  <<<<"u4ea4","u6613","u65f6","u95f4">>,
    <<"u4ea4","u6613","u5bf9","u65b9">>,
    <<"u5546","u54c1","u8bf4","u660e">>,
    <<"u6536","/","u652f">>,
    <<"u9000","u6b3e","u91d1","u989d","u72b6","u6001">>>>
\* The p2p app's export.
WECHAT_HEADERS ==
  <<<<"u4ea4","u6613","u65f6","u95f4">>,
    <<"u4ea4","u6613","u7c7b","u578b">>,
    <<"u4ea4","u6613","u5bf9","u65b9">>,
    <<"u5546","u54c1">>,
    <<"u6536","/","u652f">>,
    <<"u91d1","u989d","(","u5143",")">>,
    <<"u5f53","u524d","u72b6","u6001">>>>
\* The same without the amount's column.
WECHAT_HEADERS_NO_AMOUNT ==
  <<<<"u4ea4","u6613","u65f6","u95f4">>,
    <<"u4ea4","u6613","u7c7b","u578b">>,
    <<"u4ea4","u6613","u5bf9","u65b9">>,
    <<"u5546","u54c1">>,
    <<"u6536","/","u652f">>,
    <<"u5f53","u524d","u72b6","u6001">>>>
\* The bank's export.
CCB_HEADERS ==
  <<<<"u6458","u8981">>,
    <<"u4ea4","u6613","u65e5","u671f">>,
    <<"u4ea4","u6613","u91d1","u989d">>,
    <<"u8d26","u6237","u4f59","u989d">>,
    <<"u4ea4","u6613","u5730","u70b9","/","u9644","u8a00">>,
    <<"u5bf9","u65b9","u8d26","u53f7","u4e0e","u6237","u540d">>>>
\* The same without the amount's column.
CCB_HEADERS_NO_AMOUNT ==
  <<<<"u6458","u8981">>,
    <<"u4ea4","u6613","u65e5","u671f">>,
    <<"u8d26","u6237","u4f59","u989d">>,
    <<"u4ea4","u6613","u5730","u70b9","/","u9644","u8a00">>,
    <<"u5bf9","u65b9","u8d26","u53f7","u4e0e","u6237","u540d">>>>
\* An export whose only header with "jine" also holds "yue" (balance).
CCB_HEADERS_BALANCE ==
  <<<<"u6458","u8981">>,
    <<"u4ea4","u6613","u65e5","u671f">>,
    <<"u4f59","u989d","u91d1","u989d">>,
    <<"u4ea4","u6613","u5730","u70b9","/","u9644","u8a00">>,
    <<"u5bf9","u65b9","u8d26","u53f7","u4e0e","u6237","u540d">>>>

columns_of(platform) ==
  CASE platform = ALIPAY -> ALIPAY_COLUMNS
    [] platform = WECHAT -> WECHAT_COLUMNS
    [] platform = CCB -> CCB_COLUMNS

\* One loop of _map_columns: the first column whose header holds a keyword of
\* the loop (and none of its excluded words); 0 when there is none.
located(headers, loop) ==
  LET taking == {c \in 1..Len(headers) :
                   any_in(loop.keywords, headers[c]) /\ ~any_in(loop.excluded, headers[c])}
  IN IF taking = {} THEN 0 ELSE CHOOSE c \in taking : \A b \in taking : c <= b

\* The pairs (loop, column the loop took).
column_mapping(headers, loops) ==
  {<<l, located(headers, loops[l])>> : l \in 1..Len(loops)}

\* column_mapping[col] after every loop: the name of the last loop that took
\* column c, "" when none did.
renamed(mapping, loops, c) ==
  LET took == {p[1] : p \in {q \in mapping : q[2] = c}}
  IN IF took = {} THEN ""
     ELSE loops[CHOOSE l \in took : \A k \in took : k <= l].target

\* "jine" in df.columns after df.rename(columns=column_mapping)
has_amount_column(headers, loops) ==
  LET mapping == column_mapping(headers, loops)
  IN \E c \in 1..Len(headers) :
       LET name == renamed(mapping, loops, c)
       IN name = "amount" \/ (name = "" /\ headers[c] = COL_AMOUNT)

\* The header of a column of the table _map_columns returns ("shijian" for the
\* time, "jine" for the amount, ...).
column_name(target) ==
  CASE target = "time" -> <<"u65f6","u95f4">>
    [] target = "amount" -> COL_AMOUNT
    [] target = "counterparty" -> <<"u5bf9","u65b9">>
    [] target = "type" -> <<"u7c7b","u578b">>
    [] target = "description" -> <<"u5546","u54c1","u63cf","u8ff0">>
    [] target = "category" -> <<"u5206","u7c7b">>
    [] target = "direction" -> <<"u6536","/","u652f">>
    [] target = "status" -> <<"u4ea4","u6613","u72b6","u6001">>

\* The columns _map_columns adds with a default when the export has none of
\* that name.
defaulted_columns(platform) ==
  IF platform = CCB THEN {"time", "counterparty", "type", "description", "category"}
  ELSE {"time", "counterparty", "type", "description", "category", "direction", "status"}

\* CCBParser._map_columns, its second loop: when no column named exactly
\* "shijian" was taken by the first loop, the first column whose cells look
\* like dates (YYYYMMDD) is named the time too; 0 when there is none. first is
\* the column the first loop took.
date_fallback(platform, cols, first) ==
  IF platform # CCB THEN 0
  ELSE IF first # 0 /\ cols[first].header = column_name("time") THEN 0
  ELSE LET dated == {c \in 1..Len(cols) : cols[c].dated}
       IN IF dated = {} THEN 0 ELSE CHOOSE c \in dated : \A b \in dated : c <= b

\* _map_columns of a platform's parser on the columns of an export: the column
\* each loop took (0: none), the column the date loop took, the name of each
\* column after df.rename ("" when it keeps its header), whether ValueError
\* was raised for the amount, and the columns added with a default.
map_columns(platform, cols) ==
  LET loops == columns_of(platform)
      headers == [c \in 1..Len(cols) |-> cols[c].header]
      selected == [l \in 1..Len(loops) |-> located(headers, loops[l])]
      fallback == date_fallback(platform, cols, selected[1])
      names == [c \in 1..Len(cols) |->
                  LET took == {l \in 1..Len(loops) : selected[l] = c}
                  IN IF took # {}
                       THEN loops[CHOOSE l \in took : \A k \in took : k <= l].target
                     ELSE IF fallback = c THEN "time"
                     ELSE ""]
      present == {t \in defaulted_columns(platform) \cup {"amount"} :
                    \E c \in 1..Len(cols) :
                      names[c] = t \/ (names[c] = "" /\ headers[c] = column_name(t))}
      raised == "amount" \notin present
  IN [raised |-> raised, selected |-> selected, fallback |-> fallback, names |-> names,
      added |-> IF raised THEN {} ELSE defaulted_columns(platform) \ present]

\* parse() of a platform's parser on a file: _map_columns raises ValueError
\* when no column is named "jine"; file.table is what it returns otherwise.
parse_outcomes(platform, file) ==
  IF ~has_amount_column(file.headers, columns_of(platform)) THEN {Raised}
  ELSE CASE platform = ALIPAY -> alipay_parse_outcomes(file.table)
         [] platform = WECHAT -> wechat_parse_outcomes(file.table)
         [] platform = CCB -> ccb_parse_outcomes(file.table)

----------------------------------------------------------------------------
(* BillAnalyzer._load_all_bills *)

\* A failed parse emptying the list of the tables parsed so far.
load_file_reset(data, outcome) ==
  IF outcome.raised THEN <<>> ELSE Append(data, outcome.table)

\* all_data.append(parser.parse(file)) inside try ... except Exception: the
\* list after the call.
load_file(data, outcome) ==
  IF outcome.raised THEN data ELSE Append(data, outcome.table)

\* Every file of the platform parsed inside a try of its own: a parse that
\* raises is followed by the parse of the next file.
RECURSIVE load_files_each(_, _, _, _)
load_files_each(platform, files, k, loaded) ==
  IF k > Len(files) THEN {loaded}
  ELSE UNION
         {load_files_each(platform, files, k + 1,
                          [data |-> load_file(loaded.data, outcome),
                           log |-> Append(loaded.log,
                                          [platform |-> platform, file |-> k,
                                           raised |-> outcome.raised,
                                           table |-> outcome.table])]) :
            outcome \in parse_outcomes(platform, files[k])}

\* The files of one platform parsed inside one try, from file k on: the first
\* parse that raises ends the loop. loaded is the list all_data and the log of
\* the calls; the result is what they can be after the try.
RECURSIVE load_files(_, _, _, _)
load_files(platform, files, k, loaded) ==
  IF k > Len(files) THEN {loaded}
  ELSE UNION
         {LET after == [data |-> load_file(loaded.data, outcome),
                        log |-> Append(loaded.log,
                                       [platform |-> platform, file |-> k,
                                        raised |-> outcome.raised,
                                        table |-> outcome.table])]
          IN IF outcome.raised THEN {after}
             ELSE load_files(platform, files, k + 1, after) :
            outcome \in parse_outcomes(platform, files[k])}

\* pd.concat(all_data, ignore_index=True)
RECURSIVE concat(_, _)
concat(data, k) == IF k > Len(data) THEN <<>> ELSE data[k] \o concat(data, k + 1)

\* The tables concatenated and left in the order they were parsed in.
concat_unsorted(data) == IF data = <<>> THEN {<<>>} ELSE {concat(data, 1)}

\* The end of _load_all_bills: the tables concatenated and sorted by time, or
\* an empty DataFrame when no table was parsed.
concat_and_sort(data) ==
  IF data = <<>> THEN {<<>>}
  ELSE LET combined == concat(data, 1)
       IN {[i \in 1..Len(combined) |-> combined[p[i]]] :
             p \in sort_time_orders([i \in 1..Len(combined) |-> combined[i].time])}

\* run() proceeding whatever _load_all_bills returned.
no_bill_data_never(df) == FALSE

\* run(): all_transactions.empty
no_bill_data(df) == empty(df)

----------------------------------------------------------------------------
(* Input tables *)

\* "xingbake", padded with blanks, "ruixing" (coffee shops)
TXT_STARBUCKS == <<"u661f","u5df4","u514b">>
TXT_STARBUCKS_PADDED == <<" ","u661f","u5df4","u514b"," ">>
TXT_LUCKIN == <<"u745e","u5e78">>
\* "lingqian chongzhi" (wallet top-up), "ATM tixian" (ATM withdrawal),
\* "xinyongka huankuan" (credit card repayment)
TXT_TOPUP == <<"u96f6","u94b1","u5145","u503c">>
TXT_ATM == <<"A","T","M","u63d0","u73b0">>
TXT_REPAY == <<"u4fe1","u7528","u5361","u8fd8","u6b3e">>
\* "jingdong chaoshi" (JD supermarket), "didi chuxing" (ride hailing), "xiaodian" (small shop)
TXT_JD_MARKET == <<"u4eac","u4e1c","u8d85","u5e02">>
TXT_DIDI == <<"u6ef4","u6ef4","u51fa","u884c">>
TXT_SHOP == <<"u5c0f","u5e97">>
TXT_KTV == <<"k","t","v">>
TXT_STEAM == <<"S","t","e","a","m">>
TXT_PLAY_STEAM == <<"P","l","a","y"," ","S","t","e","a","m">>
TXT_XYZ == <<"x","y","z">>

\* A row of the canonical schema.
Row(time, platform, type, counterparty, amount, direction, description, category, raw) ==
  [time |-> time, platform |-> platform, type |-> type, counterparty |-> counterparty,
   amount |-> amount, direction |-> direction, description |-> description,
   category |-> category, raw_description |-> raw]

\* df is a table of at most MaxRows rows over a set of rows; rid numbers the rows.
IsTable(df, rows) ==
  \E n \in 0..MaxRows :
    \E t \in [1..n -> rows] : df = [i \in 1..n |-> t[i] @@ [rid |-> i]]

\* An expense of 35.00 at a coffee shop, paid through the p2p app.
BaseRow == Row(0, WECHAT, TXT_XYZ, TXT_STARBUCKS, -35000, DIR_EXPENSE, <<>>, CAT_FOOD, <<>>)

\* Ledgers as _load_all_bills can hand them to the pipeline: the base row with
\* its time, amount, platform, counterparty and category varied.
PipelineRows ==
  {[[[[[BaseRow EXCEPT !.time = t] EXCEPT !.amount = a] EXCEPT !.platform = p]
        EXCEPT !.counterparty = cp] EXCEPT !.category = c] :
     t \in {0}, a \in {-35000, 35000}, p \in {WECHAT, CCB},
     cp \in {TXT_STARBUCKS, TXT_TOPUP}, c \in {CAT_FOOD, UNCATEGORIZED}}
  \cup {[BaseRow EXCEPT !.time = NaT], [BaseRow EXCEPT !.amount = 0],
        [BaseRow EXCEPT !.amount = NaNAmount], [BaseRow EXCEPT !.time = 30],
        [BaseRow EXCEPT !.amount = -35004, !.platform = ALIPAY]}

----------------------------------------------------------------------------
(* BillAnalyzer.run *)

VARIABLES
  pc,                \* the step run() is about to take
  all_transactions,  \* the ledger _load_all_bills returned
  cleaned,           \* DataCleaner.clean's result
  deduped,           \* Deduplicator.deduplicate's first result
  duplicates,        \* Deduplicator.deduplicate's second result
  classified,        \* TransactionClassifier.classify's result
  source,            \* the platform of the parser at work, <<>> when none is
  raw,               \* the table the parser's _map_columns returned
  normalized,        \* the table the parser's parse returned
  input_dir,         \* the bill files of the input directory
  all_data,          \* _load_all_bills: the tables parsed so far
  parse_log,         \* history: what each call of a parser ended in
  window_minutes,    \* deduplicate_by_time_window: its argument
  windowed,          \* deduplicate_by_time_window: its result
  columns,           \* _map_columns: the columns of the export it is given
  column_map         \* _map_columns: what it ended in

vars == <<pc, all_transactions, cleaned, deduped, duplicates, classified,
          source, raw, normalized, input_dir, all_data, parse_log,
          window_minutes, windowed,
               columns, column_map>>

\* No parser is at work.
NoParser == source = <<>> /\ raw = <<>> /\ normalized = <<>>

\* No file is being loaded.
NoLoad == input_dir = <<>> /\ all_data = <<>> /\ parse_log = <<>>

\* deduplicate_by_time_window is not called.
NoWindow == window_minutes = 0 /\ windowed = <<>>

\* _map_columns is not called.
NoMap == columns = <<>> /\ column_map = <<>>

Init ==
  /\ pc = "clean"
  /\ IsTable(all_transactions, PipelineRows)
  /\ cleaned = <<>>
  /\ deduped = <<>>
  /\ duplicates = <<>>
  /\ classified = <<>>
  /\ NoParser
  /\ NoLoad
  /\ NoWindow
  /\ NoMap

\* run(): no bill data was found; it returns {}.
RunEmpty ==
  /\ pc = "clean"
  /\ no_bill_data(all_transactions)
  /\ pc' = "done"
  /\ UNCHANGED <<all_transactions, cleaned, deduped, duplicates, classified, source, raw, normalized,
               input_dir, all_data, parse_log, window_minutes, windowed,
               columns, column_map>>

\* A call of DataCleaner.clean on all_transactions.
CallClean ==
  /\ pc = "clean"
  /\ \E outcome \in clean_outcomes(all_transactions) :
       IF outcome.raised
         THEN pc' = "raised" /\ UNCHANGED cleaned
         ELSE pc' = "dedup" /\ cleaned' = outcome.table
  /\ UNCHANGED <<all_transactions, deduped, duplicates, classified, source, raw, normalized,
               input_dir, all_data, parse_log, window_minutes, windowed,
               columns, column_map>>

\* run(): cleaned = self.cleaner.clean(all_transactions), reached with a ledger
\* that is not empty.
Clean ==
  /\ ~no_bill_data(all_transactions)
  /\ CallClean

\* run(): deduped, duplicates = self.deduplicator.deduplicate(cleaned)
Deduplicate ==
  /\ pc = "dedup"
  /\ \E result \in deduplicate(cleaned) :
       /\ deduped' = result[1]
       /\ duplicates' = result[2]
  /\ pc' = "classify"
  /\ UNCHANGED <<all_transactions, cleaned, classified, source, raw, normalized,
               input_dir, all_data, parse_log, window_minutes, windowed,
               columns, column_map>>

\* run(): classified = self.classifier.classify(deduped)
Classify ==
  /\ pc = "classify"
  /\ classified' = classify(deduped)
  /\ pc' = "analyze"
  /\ UNCHANGED <<all_transactions, cleaned, deduped, duplicates, source, raw, normalized,
               input_dir, all_data, parse_log, window_minutes, windowed,
               columns, column_map>>

Next == RunEmpty \/ Clean \/ Deduplicate \/ Classify

Spec == Init /\ [][Next]_vars


----------------------------------------------------------------------------
(* Statements about the stages of BillAnalyzer.run *)

\* Every row of out is a row of in, value for value, and has the columns of a
\* transaction and no other.
RowsOf(out, in) ==
  \A i \in 1..Len(out) :
    /\ DOMAIN out[i] = Columns \cup {"rid"}
    /\ \E j \in 1..Len(in) : in[j] = out[i]

\* C25: after normalization a transaction is only ever filtered out or given
\* a category: the rows clean and deduplicate return (retained and duplicates)
\* are rows of their input with every value as it was and no helper column,
\* classify returns the rows of its input, in order, with nothing but the
\* category changed, and the table handed to a stage is the same after the
\* call.
C25_OnlyCategoryChanges ==
  /\ [](/\ RowsOf(cleaned, all_transactions)
        /\ RowsOf(deduped, cleaned)
        /\ RowsOf(duplicates, cleaned)
        /\ pc = "analyze" =>
             /\ Len(classified) = Len(deduped)
             /\ \A i \in 1..Len(deduped) :
                  DropColumns(classified[i], {"category"})
                    = DropColumns(deduped[i], {"category"}))
  /\ [][/\ all_transactions' = all_transactions
        /\ pc # "clean" => cleaned' = cleaned
        /\ pc # "dedup" => (deduped' = deduped /\ duplicates' = duplicates)]_vars

\* C25's case: a run in which deduplicate set a row aside and classify gave
\* the row it retained a category.
C25_Witness ==
  /\ pc = "analyze"
  /\ duplicates # <<>>
  /\ \E i \in 1..Len(classified) : classified[i].category # deduped[i].category

----------------------------------------------------------------------------
(* DataCleaner.clean on its own *)

\* A bank expense with no transfer keyword in any field.
CleanBase == Row(0, CCB, TXT_XYZ, TXT_SHOP, -35000, DIR_EXPENSE, TXT_XYZ, CAT_FOOD, TXT_XYZ)

\* Inputs of clean: each checked field in turn holding a transfer keyword or
\* missing, under a negative and a positive amount; rows without a time or an
\* amount, with a zero amount, with a keyword after capital letters.
CleanRows ==
  {[[CleanBase EXCEPT ![fields_to_check_cleaner[f]] = v] EXCEPT !.amount = a] :
     f \in 1..Len(fields_to_check_cleaner), v \in {TXT_TOPUP, NaN}, a \in {-35000, 35000}}
  \cup {CleanBase,
        [CleanBase EXCEPT !.amount = 35000],
        [CleanBase EXCEPT !.amount = 0],
        [CleanBase EXCEPT !.amount = NaNAmount],
        [CleanBase EXCEPT !.time = NaT],
        [CleanBase EXCEPT !.description = TXT_ATM],
        [CleanBase EXCEPT !.counterparty = TXT_REPAY, !.category = UNCATEGORIZED]}

InitClean ==
  /\ pc = "clean"
  /\ IsTable(all_transactions, CleanRows)
  /\ cleaned = <<>>
  /\ deduped = <<>>
  /\ duplicates = <<>>
  /\ classified = <<>>
  /\ NoParser
  /\ NoLoad
  /\ NoWindow
  /\ NoMap

SpecClean == InitClean /\ [][CallClean]_vars

----------------------------------------------------------------------------
(* Statements about DataCleaner.clean *)

\* The identities of the rows of a table.
Rids(df) == {df[i].rid : i \in 1..Len(df)}

\* Every row is present for sure, is an expense, and is not zero.
AllExpenses(df) ==
  \A i \in 1..Len(df) :
    /\ df[i].time # NaT
    /\ df[i].amount # NaNAmount
    /\ df[i].amount < 0

\* C1: every row clean returns has a time, has an amount, and its amount is
\* below 0; deduplicate and classify keep times and amounts, so the same is
\* true of the ledger run() hands to the statistics.
C1_CleanedAreExpenses ==
  /\ pc \in {"dedup", "classify", "analyze"} => AllExpenses(cleaned)
  /\ pc \in {"classify", "analyze"} => AllExpenses(deduped) /\ AllExpenses(duplicates)
  /\ pc = "analyze" => AllExpenses(classified)

\* C1's case: a ledger with a row that clean must drop for its time or amount
\* and a row it keeps has gone through all three stages.
C1_Witness ==
  /\ pc = "analyze"
  /\ Len(classified) >= 1
  /\ \E i \in 1..Len(all_transactions) :
       \/ all_transactions[i].time = NaT
       \/ all_transactions[i].amount = NaNAmount
       \/ all_transactions[i].amount >= 0

\* C6: what clean returns is a sub-multiset of its input by row identity: each
\* returned row is an input row, every field as it was, and no input row is
\* returned twice.
C6_CleanIsSubset ==
  pc = "dedup" =>
    /\ \A i \in 1..Len(cleaned) :
         \E j \in 1..Len(all_transactions) : cleaned[i] = all_transactions[j]
    /\ \A i, k \in 1..Len(cleaned) : i # k => cleaned[i].rid # cleaned[k].rid

\* C6's case: clean has kept some rows and dropped others.
C6_Witness ==
  /\ pc = "dedup"
  /\ Len(cleaned) >= 1
  /\ Len(cleaned) < Len(all_transactions)

\* A row some checked field of which mentions a transfer keyword, letter case
\* aside.
MentionsTransfer(row) ==
  \E field \in {"raw_description", "description", "counterparty", "type", "category"} :
    /\ field \in DOMAIN row
    /\ row[field] # NaN
    /\ LET folded == Lower(row[field]) IN
         \E k \in 1..Len(TRANSFER_KEYWORDS) :
           \E pre \in 0..Len(folded) :
             /\ pre + Len(TRANSFER_KEYWORDS[k]) <= Len(folded)
             /\ \A n \in 1..Len(TRANSFER_KEYWORDS[k]) :
                  folded[pre + n] = LowerChar(TRANSFER_KEYWORDS[k][n])

\* C10: clean removes every row that mentions a transfer keyword in one of
\* the five fields, whatever its amount and category: no returned row
\* mentions one.
C10_TransfersRemoved ==
  pc = "dedup" =>
    /\ \A i \in 1..Len(cleaned) : ~MentionsTransfer(cleaned[i])
    /\ \A j \in 1..Len(all_transactions) :
         MentionsTransfer(all_transactions[j]) => all_transactions[j].rid \notin Rids(cleaned)

\* C10's case: an expense with a time and an amount that mentions a transfer
\* keyword went in, with a row that clean keeps.
C10_Witness ==
  /\ pc = "dedup"
  /\ Len(cleaned) >= 1
  /\ \E j \in 1..Len(all_transactions) :
       /\ MentionsTransfer(all_transactions[j])
       /\ all_transactions[j].time # NaT
       /\ all_transactions[j].amount # NaNAmount
       /\ all_transactions[j].amount < 0


----------------------------------------------------------------------------
(* Deduplicator.deduplicate on its own *)

\* Inputs of deduplicate: the base expense at three times (two of them in the
\* same minute) from each platform; and rows with the counterparty padded with
\* blanks, an amount that rounds to the same cents, another counterparty,
\* another amount, the opposite sign, no counterparty, a platform that has no
\* priority.
DedupRows ==
  {[BaseRow EXCEPT !.time = t, !.platform = p] :
     t \in {0, 30, 60}, p \in {WECHAT, ALIPAY, CCB}}
  \cup {[BaseRow EXCEPT !.counterparty = TXT_STARBUCKS_PADDED, !.platform = ALIPAY],
        [BaseRow EXCEPT !.amount = -35004, !.platform = CCB],
        [BaseRow EXCEPT !.counterparty = TXT_LUCKIN],
        [BaseRow EXCEPT !.amount = -35010],
        [BaseRow EXCEPT !.amount = 35000, !.platform = CCB],
        [BaseRow EXCEPT !.counterparty = NaN, !.platform = ALIPAY],
        [BaseRow EXCEPT !.platform = TXT_XYZ]}

InitDedup ==
  /\ pc = "dedup"
  /\ all_transactions = <<>>
  /\ IsTable(cleaned, DedupRows)
  /\ deduped = <<>>
  /\ duplicates = <<>>
  /\ classified = <<>>
  /\ NoParser
  /\ NoLoad
  /\ NoWindow
  /\ NoMap

SpecDedup == InitDedup /\ [][Deduplicate]_vars

----------------------------------------------------------------------------
(* Statements about Deduplicator.deduplicate *)

\* C2: deduplicate returns two tables that are disjoint by row identity and
\* whose multiset union is its input: no row lost, none created, none in both.
C2_DedupPartition ==
  pc = "classify" =>
    /\ Len(deduped) + Len(duplicates) = Len(cleaned)
    /\ Rids(deduped) \cap Rids(duplicates) = {}
    /\ Cardinality(Rids(deduped)) = Len(deduped)
    /\ Cardinality(Rids(duplicates)) = Len(duplicates)
    /\ {deduped[i] : i \in 1..Len(deduped)} \cup {duplicates[i] : i \in 1..Len(duplicates)}
         = {cleaned[i] : i \in 1..Len(cleaned)}

\* C2's case: deduplicate has kept a row and removed a row.
C2_Witness ==
  /\ pc = "classify"
  /\ Len(deduped) >= 1
  /\ Len(duplicates) >= 1

\* The absolute value of an amount in whole cents, .5 and more rounded up.
CentsOf(amount) ==
  LET a == IF amount < 0 THEN 0 - amount ELSE amount IN (a + 5) \div 10

\* Leading and trailing blanks aside, s and t are the same text.
SameTrimmed(s, t) ==
  \E i, j \in 0..Len(s) : \E k, l \in 0..Len(t) :
    /\ i <= j /\ k <= l
    /\ \A n \in 1..i : IsSpace(s[n])
    /\ \A n \in (j + 1)..Len(s) : IsSpace(s[n])
    /\ \A n \in 1..k : IsSpace(t[n])
    /\ \A n \in (l + 1)..Len(t) : IsSpace(t[n])
    /\ (i < j => ~IsSpace(s[i + 1]) /\ ~IsSpace(s[j]))
    /\ (k < l => ~IsSpace(t[k + 1]) /\ ~IsSpace(t[l]))
    /\ SubSeq(s, i + 1, j) = SubSeq(t, k + 1, l)

\* Two rows with a time and an amount have the same dedup key: the same
\* minute, the same absolute amount in cents, the same trimmed counterparty (a
\* missing counterparty counts as the empty text).
SameDedupKey(r, s) ==
  /\ r.time # NaT /\ s.time # NaT
  /\ r.amount # NaNAmount /\ s.amount # NaNAmount
  /\ r.time \div 60 = s.time \div 60
  /\ CentsOf(r.amount) = CentsOf(s.amount)
  /\ SameTrimmed(IF r.counterparty = NaN THEN <<>> ELSE r.counterparty,
                 IF s.counterparty = NaN THEN <<>> ELSE s.counterparty)

\* C3: no two rows deduplicate retains have the same dedup key.
C3_RetainedKeysDistinct ==
  pc = "classify" =>
    \A i, j \in 1..Len(deduped) : i # j => ~SameDedupKey(deduped[i], deduped[j])

\* C3's case: rows that differ in seconds, in mills or in padding, yet have the
\* same key, went in, and one of them is retained beside a row of another key.
C3_Witness ==
  /\ pc = "classify"
  /\ Len(deduped) >= 1
  /\ \E i, j \in 1..Len(cleaned) :
       /\ i # j
       /\ Data(cleaned[i]) # Data(cleaned[j])
       /\ SameDedupKey(cleaned[i], cleaned[j])

\* C28: deduplicate loses no dedup key: every row it sets aside has the key of
\* a retained row whose platform's priority number is not greater than its
\* own, and every row that went in has the key of exactly one retained row.
C28_NoKeyLost ==
  pc = "classify" =>
    /\ \A d \in 1..Len(duplicates) :
         \E r \in 1..Len(deduped) :
           /\ SameDedupKey(duplicates[d], deduped[r])
           /\ known_platform(duplicates[d].platform) =>
                /\ known_platform(deduped[r].platform)
                /\ platform_priority(deduped[r].platform)
                     <= platform_priority(duplicates[d].platform)
    /\ \A c \in 1..Len(cleaned) :
         \E r \in 1..Len(deduped) :
           /\ SameDedupKey(cleaned[c], deduped[r])
           /\ \A q \in 1..Len(deduped) : SameDedupKey(cleaned[c], deduped[q]) => q = r

\* C28's case: rows of two platforms with one key went in, one was set aside,
\* and the one retained is of the platform with the smaller number.
C28_Witness ==
  /\ pc = "classify"
  /\ \E d \in 1..Len(duplicates), r \in 1..Len(deduped) :
       /\ SameDedupKey(duplicates[d], deduped[r])
       /\ known_platform(duplicates[d].platform)
       /\ platform_priority(deduped[r].platform) < platform_priority(duplicates[d].platform)

\* The ranking C4 states: wallet app 1, p2p app 2, bank 3.
StatedRank == (ALIPAY :> 1) @@ (WECHAT :> 2) @@ (CCB :> 3)

\* The ranking of the code: p2p app 1, wallet app 2, bank 3.
CodeRank == (WECHAT :> 1) @@ (ALIPAY :> 2) @@ (CCB :> 3)

\* Of two input rows with the same dedup key, the one that ranks lower under
\* rank is among the duplicates.
LowerRankedRemoved(rank) ==
  \A i, j \in 1..Len(cleaned) :
    (/\ SameDedupKey(cleaned[i], cleaned[j])
     /\ cleaned[i].platform \in DOMAIN rank
     /\ cleaned[j].platform \in DOMAIN rank
     /\ rank[cleaned[i].platform] < rank[cleaned[j].platform])
      => cleaned[j].rid \in Rids(duplicates)

\* C4 as stated: of two rows with the same key and different platforms the
\* wallet-app copy is retained over a p2p-app or bank copy, the p2p-app copy
\* over a bank copy.
C4_StatedPriority == pc = "classify" => LowerRankedRemoved(StatedRank)

\* C4 as the code has it: of two rows with the same key and different
\* platforms the p2p-app copy is retained over a wallet-app or bank copy, the
\* wallet-app copy over a bank copy.
C4_CodePriority == pc = "classify" => LowerRankedRemoved(CodeRank)

\* C4's case: a wallet-app row and a p2p-app row with the same key went in.
C4_Witness ==
  /\ pc = "classify"
  /\ \E i, j \in 1..Len(cleaned) :
       /\ SameDedupKey(cleaned[i], cleaned[j])
       /\ cleaned[i].platform = WECHAT
       /\ cleaned[j].platform = ALIPAY
       /\ cleaned[j].rid \in Rids(duplicates)
       /\ cleaned[i].rid \in Rids(deduped)

\* C18: of rows of the input that share a dedup key and a platform priority,
\* the one retained is the first in the order of the input: no later one is
\* retained.
C18_TiesKeepInputOrder ==
  pc = "classify" =>
    \A i, j \in 1..Len(cleaned) :
      (/\ i < j
       /\ SameDedupKey(cleaned[i], cleaned[j])
       /\ priority_of(cleaned[i]) = priority_of(cleaned[j]))
        => cleaned[j].rid \notin Rids(deduped)

----------------------------------------------------------------------------
(* Deduplicator.deduplicate_by_time_window on its own *)

\* The windows the variant is called with: one minute, and its default.
WindowMinutes == {1, 5}

\* Inputs of deduplicate_by_time_window: the base expense at 0 s, 1 s, 61 s and
\* 301 s (one and five minutes after an earlier one, and a second more) from
\* several platforms; and rows with another counterparty, the opposite sign,
\* no counterparty, no time, a platform that has no priority.
WindowRows ==
  {[BaseRow EXCEPT !.time = 0, !.platform = CCB],
   [BaseRow EXCEPT !.time = 0, !.platform = WECHAT],
   [BaseRow EXCEPT !.time = 1, !.platform = ALIPAY],
   [BaseRow EXCEPT !.time = 1, !.platform = CCB],
   [BaseRow EXCEPT !.time = 61, !.platform = WECHAT],
   [BaseRow EXCEPT !.time = 61, !.platform = CCB],
   [BaseRow EXCEPT !.time = 301, !.platform = WECHAT],
   [BaseRow EXCEPT !.time = 301, !.platform = ALIPAY],
   [BaseRow EXCEPT !.time = 1, !.counterparty = TXT_LUCKIN],
   [BaseRow EXCEPT !.time = 61, !.amount = 35000, !.platform = ALIPAY],
   [BaseRow EXCEPT !.time = 1, !.counterparty = NaN],
   [BaseRow EXCEPT !.time = NaT, !.platform = CCB],
   [BaseRow EXCEPT !.time = 61, !.platform = TXT_XYZ]}

\* The table handed to deduplicate_by_time_window is kept in cleaned.
InitWindow ==
  /\ pc = "window"
  /\ all_transactions = <<>>
  /\ \E n \in 0..MaxWindowRows :
       \E t \in [1..n -> WindowRows] : cleaned = [i \in 1..n |-> t[i] @@ [rid |-> i]]
  /\ deduped = <<>>
  /\ duplicates = <<>>
  /\ classified = <<>>
  /\ NoParser
  /\ NoLoad
  /\ window_minutes \in WindowMinutes
  /\ windowed = <<>>
  /\ NoMap

\* A call of Deduplicator.deduplicate_by_time_window(cleaned, window_minutes).
DeduplicateByTimeWindow ==
  /\ pc = "window"
  /\ windowed' \in deduplicate_by_time_window(cleaned, window_minutes)
  /\ pc' = "windowed"
  /\ UNCHANGED <<all_transactions, cleaned, deduped, duplicates, classified,
                 source, raw, normalized, input_dir, all_data, parse_log,
                 window_minutes, columns, column_map>>

SpecWindow == InitWindow /\ [][DeduplicateByTimeWindow]_vars

----------------------------------------------------------------------------
(* Statements about Deduplicator.deduplicate_by_time_window *)

\* Two rows have the same absolute amount and the same counterparty (a missing
\* value is the same as nothing).
Twins(r, s) ==
  /\ r.amount # NaNAmount /\ s.amount # NaNAmount
  /\ (IF r.amount < 0 THEN -r.amount ELSE r.amount)
       = (IF s.amount < 0 THEN -s.amount ELSE s.amount)
  /\ r.counterparty # NaN /\ s.counterparty # NaN
  /\ r.counterparty = s.counterparty

\* Two timestamps are at most w minutes apart.
Within(t, u, w) ==
  /\ t # NaT /\ u # NaT
  /\ t - u <= 60 * w
  /\ u - t <= 60 * w

\* C19: after deduplicate_by_time_window(df, w), no two surviving transactions
\* have equal absolute amount, equal counterparty and timestamps within w
\* minutes of each other: stopping the scan at the first row beyond the window
\* misses no pair.
C19_NoTwinsWithinWindow ==
  pc = "windowed" =>
    \A i, j \in 1..Len(windowed) :
      i # j =>
        ~(Twins(windowed[i], windowed[j])
          /\ Within(windowed[i].time, windowed[j].time, window_minutes))

\* A row was removed, and two survivors with the same absolute amount and
\* counterparty lie on either side of a stopped scan: they are more than the
\* window apart.
C19_Witness ==
  /\ pc = "windowed"
  /\ Len(windowed) < Len(cleaned)
  /\ \E i, j \in 1..Len(windowed) :
       /\ i # j
       /\ Twins(windowed[i], windowed[j])
       /\ windowed[i].time # NaT /\ windowed[j].time # NaT
       /\ ~Within(windowed[i].time, windowed[j].time, window_minutes)

\* The rows of the input that are not in the result.
Removed == SelectSeq(cleaned, LAMBDA row : row.rid \notin Rids(windowed))

\* Row k is not later than row r (a row without a time is sorted last).
NotLater(k, r) == r.time = NaT \/ (k.time # NaT /\ k.time <= r.time)

\* C20: deduplicate_by_time_window removes, of a matched pair, the row with
\* the larger priority number, and the later one when the priorities are
\* equal; and every removed transaction has a survivor with the same absolute
\* amount and counterparty whose priority number is at most its own.
C20_RemovedHasBetterSurvivor ==
  pc = "windowed" =>
    \A n \in 1..Len(Removed) :
      LET r == Removed[n] IN
        /\ \E m \in 1..Len(cleaned) :
             LET k == cleaned[m] IN
               /\ k.rid # r.rid
               /\ Twins(k, r)
               /\ (Within(k.time, r.time, window_minutes) \/ k.time = NaT \/ r.time = NaT)
               /\ \/ priority_get(k.platform) < priority_get(r.platform)
                  \/ /\ priority_get(k.platform) = priority_get(r.platform)
                     /\ NotLater(k, r)
        /\ \E m \in 1..Len(windowed) :
             /\ Twins(windowed[m], r)
             /\ priority_get(windowed[m].platform) <= priority_get(r.platform)

\* A chain: a row was removed and every survivor with its amount and
\* counterparty is more than the window away from it (the row it was matched
\* with was removed in its turn).
C20_Witness ==
  /\ pc = "windowed"
  /\ \E n \in 1..Len(Removed) :
       /\ Removed[n].time # NaT
       /\ \A m \in 1..Len(windowed) :
            Twins(windowed[m], Removed[n]) =>
              /\ windowed[m].time # NaT
              /\ ~Within(windowed[m].time, Removed[n].time, window_minutes)

----------------------------------------------------------------------------
(* The core stages called one after the other, on any table *)

InitStages == Init \/ InitWindow

NextStages == CallClean \/ Deduplicate \/ Classify \/ DeduplicateByTimeWindow

SpecStages == InitStages /\ [][NextStages]_vars

\* C12: every core stage accepts an empty table and returns an empty result
\* without raising: clean and classify an empty table, deduplicate two empty
\* tables, deduplicate_by_time_window an empty table; also when the table is
\* empty because the stage before filtered out every row.
C12_EmptyInEmptyOut ==
  /\ (pc \in {"dedup", "classify", "analyze", "raised"} /\ empty(all_transactions)) =>
       (pc # "raised" /\ cleaned = <<>>)
  /\ (pc \in {"classify", "analyze"} /\ empty(cleaned)) =>
       (deduped = <<>> /\ duplicates = <<>>)
  /\ (pc = "analyze" /\ empty(deduped)) => classified = <<>>
  /\ (pc = "windowed" /\ empty(cleaned)) => windowed = <<>>

\* clean filtered out every row of a ledger, and deduplicate and classify were
\* called with the empty table.
C12_Witness ==
  /\ pc = "analyze"
  /\ ~empty(all_transactions)
  /\ empty(cleaned)
  /\ empty(deduped)
  /\ empty(duplicates)
  /\ empty(classified)

----------------------------------------------------------------------------
(* The two deduplications, each on its own inputs *)

InitDedups == InitDedup \/ InitWindow

NextDedups == Deduplicate \/ DeduplicateByTimeWindow

SpecDedups == InitDedups /\ [][NextDedups]_vars

\* Two rows match for deduplicate_by_time_window: the same absolute amount and
\* counterparty, and times at most w minutes apart (a row without a time is
\* never too far).
WindowMatch(r, s, w) ==
  /\ Twins(r, s)
  /\ (r.time = NaT \/ s.time = NaT \/ Within(r.time, s.time, w))

\* The rows of a platform that is no key of platform_priority.
UnknownPlatform(df) == {i \in 1..Len(df) : ~known_platform(df[i].platform)}

\* C29: a row of an unknown platform has the lowest priority in both
\* deduplications: it is set aside whenever a row of a known platform matches
\* it (the same dedup key for deduplicate; the same amount and counterparty
\* and a time within the window for deduplicate_by_time_window), and it is
\* retained when no row matches it (nor could, for want of a time).
C29_UnknownPlatformLowest ==
  /\ pc \in {"classify", "analyze"} =>
       \A c \in UnknownPlatform(cleaned) :
         /\ (\E k \in 1..Len(cleaned) :
               known_platform(cleaned[k].platform) /\ SameDedupKey(cleaned[c], cleaned[k]))
              => cleaned[c].rid \in Rids(duplicates) \ Rids(deduped)
         /\ (\A k \in 1..Len(cleaned) : k # c => ~SameDedupKey(cleaned[c], cleaned[k]))
              => cleaned[c].rid \in Rids(deduped)
  /\ pc = "windowed" =>
       \A c \in UnknownPlatform(cleaned) :
         /\ (\E k \in 1..Len(cleaned) :
               /\ known_platform(cleaned[k].platform)
               /\ Twins(cleaned[c], cleaned[k])
               /\ Within(cleaned[c].time, cleaned[k].time, window_minutes))
              => cleaned[c].rid \notin Rids(windowed)
         /\ (\A k \in 1..Len(cleaned) :
               k # c => ~WindowMatch(cleaned[c], cleaned[k], window_minutes))
              => cleaned[c].rid \in Rids(windowed)

----------------------------------------------------------------------------
(* TransactionClassifier.classify on its own *)

TXT_12306 == <<"1","2","3","0","6","u706b","u8f66","u7968">>
TXT_KTV_UPPER == <<"K","T","V">>

\* The texts of a row: description, counterparty, raw_description, type.
ClassifyTexts ==
  { <<<<>>, TXT_STARBUCKS, <<>>, TXT_XYZ>>,          \* a food keyword in the counterparty
    <<TXT_JD_MARKET, TXT_SHOP, <<>>, TXT_XYZ>>,      \* keywords of food and of shopping
    <<TXT_XYZ, TXT_SHOP, TXT_XYZ, TXT_XYZ>>,         \* no keyword
    <<TXT_KTV, TXT_SHOP, NaN, NaN>>,                 \* a keyword in another letter case
    <<TXT_KTV_UPPER, NaN, <<>>, TXT_XYZ>>,
    <<TXT_STEAM, TXT_SHOP, <<>>, <<>>>>,             \* " Steam" needs the blank before it
    <<TXT_SHOP, TXT_STEAM, <<>>, <<>>>>,
    <<TXT_XYZ, NaN, TXT_DIDI, NaN>>,                 \* a keyword in raw_description only
    <<NaN, TXT_SHOP, NaN, TXT_TOPUP>>,               \* a keyword in type only
    <<TXT_REPAY, TXT_LUCKIN, <<>>, <<>>>>,           \* keywords of food and of finance
    <<TXT_12306, TXT_SHOP, <<>>, TXT_XYZ>> }         \* "12306 huochepiao", a railway ticket

\* The texts that also come with a category set and with a missing one.
CategorizedTexts ==
  { <<<<>>, TXT_STARBUCKS, <<>>, TXT_XYZ>>,
    <<TXT_XYZ, TXT_SHOP, TXT_XYZ, TXT_XYZ>>,
    <<TXT_XYZ, NaN, TXT_DIDI, NaN>> }

ClassifyRows ==
  {Row(0, ALIPAY, x[4], x[2], -35000, DIR_EXPENSE, x[1], UNCATEGORIZED, x[3]) :
     x \in ClassifyTexts}
  \cup {Row(0, ALIPAY, x[4], x[2], -35000, DIR_EXPENSE, x[1], c, x[3]) :
          x \in CategorizedTexts, c \in {NaN, CAT_SHOPPING}}

\* The same rows in a table that has no category column.
ClassifyRowsNoCategory == {DropColumns(row, {"category"}) : row \in ClassifyRows}

InitClassify ==
  /\ pc = "classify"
  /\ all_transactions = <<>>
  /\ cleaned = <<>>
  /\ \/ IsTable(deduped, ClassifyRows)
     \/ IsTable(deduped, ClassifyRowsNoCategory)
  /\ duplicates = <<>>
  /\ classified = <<>>
  /\ NoParser
  /\ NoLoad
  /\ NoWindow
  /\ NoMap

SpecClassify == InitClassify /\ [][Classify]_vars

----------------------------------------------------------------------------
(* Statements about TransactionClassifier.classify *)

HasCategory(row) == "category" \in DOMAIN row

\* C5: classify overwrites no category: a row whose category on input is not
\* the sentinel has the same category on output.
C5_NoOverwrite ==
  pc = "analyze" =>
    /\ Len(classified) = Len(deduped)
    /\ \A i \in 1..Len(deduped) :
         (HasCategory(deduped[i]) /\ deduped[i].category # UNCATEGORIZED)
           => classified[i].category = deduped[i].category

\* C5's case: a row went through whose category is a category other than the
\* one its text has a keyword of.
C5_Witness ==
  /\ pc = "analyze"
  /\ \E i \in 1..Len(deduped) :
       /\ HasCategory(deduped[i])
       /\ deduped[i].category = CAT_SHOPPING
       /\ classify_transaction(deduped[i]) \notin {CAT_SHOPPING, UNCATEGORIZED}
       /\ classified[i].category = CAT_SHOPPING

\* The categories, by their place in CATEGORY_RULES, that have a keyword
\* occurring in text, letter case aside.
MatchingCategories(text) ==
  {c \in 1..Len(CATEGORY_RULES) :
     \E k \in 1..Len(CATEGORY_RULES[c].keywords) :
       \E pre \in 0..Len(text) :
         LET kw == CATEGORY_RULES[c].keywords[k] IN
           /\ pre + Len(kw) <= Len(text)
           /\ \A n \in 1..Len(kw) : LowerChar(text[pre + n]) = LowerChar(kw[n])}

\* The category C8 states for a text: that of the first category in
\* declaration order with a matching keyword, the sentinel when there is none.
StatedCategory(text) ==
  LET m == MatchingCategories(text) IN
    IF m = {} THEN UNCATEGORIZED
    ELSE CATEGORY_RULES[CHOOSE c \in m : \A d \in m : c <= d].category

\* C8: a row with the sentinel category comes out with the first category, in
\* the declaration order of CATEGORY_RULES, that has a keyword occurring in its
\* combined text; with the sentinel exactly when no keyword of any category
\* occurs.
C8_FirstCategoryWins ==
  pc = "analyze" =>
    \A i \in 1..Len(deduped) :
      (HasCategory(deduped[i]) /\ deduped[i].category = UNCATEGORIZED)
        => LET m == MatchingCategories(combined_text(deduped[i])) IN
             /\ classified[i].category = StatedCategory(combined_text(deduped[i]))
             /\ (classified[i].category = UNCATEGORIZED <=> m = {})
             /\ \A c \in m : \A d \in m :
                  (c < d /\ CATEGORY_RULES[c].category # CATEGORY_RULES[d].category)
                    => classified[i].category # CATEGORY_RULES[d].category

\* C8's case: a sentinel row whose text has keywords of two categories came
\* out with the earlier one, and a sentinel row without any keyword stayed.
C8_Witness ==
  /\ pc = "analyze"
  /\ \E i \in 1..Len(deduped) :
       /\ HasCategory(deduped[i])
       /\ deduped[i].category = UNCATEGORIZED
       /\ Cardinality(MatchingCategories(combined_text(deduped[i]))) >= 2
       /\ classified[i].category = CAT_FOOD
  /\ \E i \in 1..Len(deduped) :
       /\ HasCategory(deduped[i])
       /\ deduped[i].category = UNCATEGORIZED
       /\ classified[i].category = UNCATEGORIZED

\* C9: classify gives every row whose category is the sentinel or is missing
\* the category of its keywords, also in a table that has a category column.
C9_MissingIsClassified ==
  pc = "analyze" =>
    \A i \in 1..Len(deduped) :
      (HasCategory(deduped[i]) /\ deduped[i].category \in {UNCATEGORIZED, NaN})
        => classified[i].category = StatedCategory(combined_text(deduped[i]))

\* Some keyword of the category's own list in CATEGORY_RULES occurs in text,
\* letter case aside.
HasKeywordOf(category, text) ==
  \E c \in 1..Len(CATEGORY_RULES) :
    /\ CATEGORY_RULES[c].category = category
    /\ \E k \in 1..Len(CATEGORY_RULES[c].keywords) :
         Contains(Lower(text), Lower(CATEGORY_RULES[c].keywords[k]))

\* C16: a row whose description is "12306 huochepiao" (12306 and the word for
\* a railway ticket) and that has no category (the sentinel, or a table without
\* the column) comes out of classify as "jiaotong chuxing" (transport), and a
\* keyword of the transport list of CATEGORY_RULES occurs in the description.
C16_RailwayTicket ==
  pc = "analyze" =>
    \A i \in 1..Len(deduped) :
      (/\ deduped[i].description = TXT_12306
       /\ (HasCategory(deduped[i]) => deduped[i].category = UNCATEGORIZED))
        => /\ classified[i].category = CAT_TRANSPORT
           /\ HasKeywordOf(CAT_TRANSPORT, deduped[i].description)

\* C16's case: the railway-ticket row went through classify with the sentinel
\* for its category.
C16_Witness ==
  /\ pc = "analyze"
  /\ \E i \in 1..Len(deduped) :
       /\ deduped[i].description = TXT_12306
       /\ HasCategory(deduped[i])
       /\ deduped[i].category = UNCATEGORIZED
       /\ classified[i].category = CAT_TRANSPORT

----------------------------------------------------------------------------
(* The parsers on their own *)

\* Texts of raw exports: statuses, a direction that is neither of the two, and
\* descriptions.
TXT_CLOSED == <<"u4ea4","u6613","u5173","u95ed">>
NEUTRAL == <<"u4e0d","u8ba1","u6536","u652f">>
TXT_REFUNDED == <<"u5df2","u5168","u989d","u9000","u6b3e">>
TXT_TRANSFER_TO == <<"u8f6c","u8d26","u7ed9","u670b","u53cb">>
TXT_DEPOSIT == <<"u5b58","u5165">>
TXT_RAIL == <<"u4e2d","u94c1","u7f51","u7edc">>
TXT_DAILY == <<"u65e5","u7528","u767e","u8d27">>
TXT_BEAUTY_FOOD == <<"u7f8e","u5bb9","u7f8e","u98df">>

\* Amount cells as an export writes them.
CELL_35 == <<"3","5",".","0","0">>
CELL_MINUS_35 == <<"-","3","5",".","0","0">>
CELL_ZERO == <<"0",".","0","0">>
CELL_WORD == <<"a","b","c">>
CELL_YEN == YEN \o <<"1",",","2","5","0",".","5","0">>

\* A row of the table _map_columns of AlipayParser and of WechatParser returns.
RawRow(time, amount, counterparty, type, description, category, direction, status) ==
  [time |-> time, amount |-> amount, counterparty |-> counterparty, type |-> type,
   description |-> description, category |-> category, direction |-> direction,
   status |-> status]

\* A paid coffee in the wallet app's export.
AlipayBase ==
  RawRow(0, CELL_35, TXT_STARBUCKS, TXT_DAILY, TXT_XYZ, TXT_DAILY, DIR_EXPENSE, TRADE_SUCCESS)

AlipayRows ==
  {[[AlipayBase EXCEPT !.amount = a] EXCEPT !.direction = d] :
     a \in {CELL_35, CELL_MINUS_35, CELL_ZERO, CELL_WORD, CELL_YEN, NaN},
     d \in {DIR_EXPENSE, DIR_INCOME, NEUTRAL, NaN}}
  \cup {[AlipayBase EXCEPT !.status = TXT_CLOSED],
        [AlipayBase EXCEPT !.category = NaN],
        [AlipayBase EXCEPT !.category = CAT_FOOD],
        [AlipayBase EXCEPT !.category = TXT_BEAUTY_FOOD],
        [AlipayBase EXCEPT !.category = TXT_XYZ, !.time = NaT]}

\* A paid coffee in the p2p app's export.
WechatBase ==
  RawRow(0, CELL_35, TXT_STARBUCKS, TYPE_MERCHANT, TXT_XYZ, UNCATEGORIZED, DIR_EXPENSE,
         PAY_SUCCESS)

WechatRows ==
  {[[WechatBase EXCEPT !.amount = a] EXCEPT !.direction = d] :
     a \in {CELL_35, CELL_MINUS_35, CELL_ZERO, CELL_WORD, CELL_YEN, NaN},
     d \in {DIR_EXPENSE, DIR_INCOME, NEUTRAL, NaN}}
  \cup {[WechatBase EXCEPT !.status = TXT_REFUNDED],
        [WechatBase EXCEPT !.type = TXT_TRANSFER_TO, !.counterparty = NaN],
        [WechatBase EXCEPT !.counterparty = TXT_RAIL, !.time = NaT]}

\* A row of the table _map_columns of CCBParser returns: no direction and no
\* status.
CCBBase ==
  DropColumns(RawRow(0, CELL_35, TXT_STARBUCKS, KW_CONSUME, TXT_XYZ, UNCATEGORIZED, NaN, NaN),
              {"direction", "status"})

CCBRows ==
  {[[CCBBase EXCEPT !.amount = a] EXCEPT !.type = t] :
     a \in {CELL_35, CELL_MINUS_35, CELL_ZERO, CELL_WORD, CELL_YEN, NaN},
     t \in {KW_CONSUME, TXT_DEPOSIT, TXT_XYZ, NaN}}
  \cup {[CCBBase EXCEPT !.counterparty = TXT_RAIL, !.time = NaT],
        [CCBBase EXCEPT !.type = KW_ALIPAY, !.description = NaN]}

InitParse ==
  /\ pc = "parse"
  /\ all_transactions = <<>>
  /\ cleaned = <<>>
  /\ deduped = <<>>
  /\ duplicates = <<>>
  /\ classified = <<>>
  /\ source \in {ALIPAY, WECHAT, CCB}
  /\ IsTable(raw, CASE source = ALIPAY -> AlipayRows
                    [] source = WECHAT -> WechatRows
                    [] source = CCB -> CCBRows)
  /\ normalized = <<>>
  /\ NoLoad
  /\ NoWindow
  /\ NoMap

\* AlipayParser.parse, from the table _map_columns returned on.
AlipayParse ==
  /\ pc = "parse"
  /\ source = ALIPAY
  /\ \E outcome \in alipay_parse_outcomes(raw) :
       IF outcome.raised
         THEN pc' = "raised" /\ UNCHANGED normalized
         ELSE pc' = "parsed" /\ normalized' = outcome.table
  /\ UNCHANGED <<all_transactions, cleaned, deduped, duplicates, classified, source, raw,
               input_dir, all_data, parse_log, window_minutes, windowed,
               columns, column_map>>

\* WechatParser.parse, from the table _map_columns returned on.
WechatParse ==
  /\ pc = "parse"
  /\ source = WECHAT
  /\ \E outcome \in wechat_parse_outcomes(raw) :
       IF outcome.raised
         THEN pc' = "raised" /\ UNCHANGED normalized
         ELSE pc' = "parsed" /\ normalized' = outcome.table
  /\ UNCHANGED <<all_transactions, cleaned, deduped, duplicates, classified, source, raw,
               input_dir, all_data, parse_log, window_minutes, windowed,
               columns, column_map>>

\* CCBParser.parse, from the table _map_columns returned on.
CCBParse ==
  /\ pc = "parse"
  /\ source = CCB
  /\ \E outcome \in ccb_parse_outcomes(raw) :
       IF outcome.raised
         THEN pc' = "raised" /\ UNCHANGED normalized
         ELSE pc' = "parsed" /\ normalized' = outcome.table
  /\ UNCHANGED <<all_transactions, cleaned, deduped, duplicates, classified, source, raw,
               input_dir, all_data, parse_log, window_minutes, windowed,
               columns, column_map>>

Parse == AlipayParse \/ WechatParse \/ CCBParse

SpecParse == InitParse /\ [][Parse]_vars

----------------------------------------------------------------------------
(* Statements about the parsers *)

\* The sign statement on one row.
SignMatchesDirection(row) ==
  /\ row.direction = DIR_EXPENSE <=> row.amount < 0
  /\ row.direction = DIR_INCOME <=> row.amount > 0

\* C7: in every table a parser returns, a row's direction is "zhichu"
\* (expense) exactly when its amount is below 0 and "shouru" (income) exactly
\* when its amount is above 0, rows whose amount parsed to 0 and rows whose
\* direction in the export is neither of the two included.
C7_SignInvariant ==
  pc = "parsed" =>
    \A i \in 1..Len(normalized) : SignMatchesDirection(normalized[i])

\* What the parsers do guarantee: an expense's amount is not above 0, an
\* income's amount not below 0, and the bank's rows satisfy the sign statement.
ParsedSigns ==
  pc = "parsed" =>
    \A i \in 1..Len(normalized) :
      LET row == normalized[i] IN
        /\ row.direction = DIR_EXPENSE => row.amount <= 0
        /\ row.direction = DIR_INCOME => row.amount >= 0
        /\ source = CCB => SignMatchesDirection(row)

\* The raw row a returned row was made from.
RawOf(row) == raw[CHOOSE i \in 1..Len(raw) : raw[i].rid = row.rid]

\* The number the parser at work reads in an amount cell, before any sign is
\* set.
AmountRead(cell) ==
  IF source = WECHAT
    THEN fillna0(to_numeric(remove_char(remove_char(remove_char(astype_str(cell), YEN[1]),
                                                    FULLWIDTH_YEN[1]), ",")))
    ELSE fillna0(to_numeric(cell))

\* C14: setting the sign is idempotent: on the amount a parser read and the
\* direction of the row, a second application leaves what the first gave, and
\* the amount the parser returns (its own reconciliation, then the one of
\* _normalize_dataframe) is the amount of a single application.
C14_ReconcileIdempotent ==
  pc = "parsed" =>
    \A i \in 1..Len(normalized) :
      LET row == normalized[i]
          once == reconcile_sign(row.direction, AmountRead(RawOf(row).amount))
      IN /\ reconcile_sign(row.direction, once) = once
         /\ row.amount = once

\* C14's case: a parser that reconciles twice returned an expense whose cell
\* read a positive number and an income whose cell read a negative one.
C14_Witness ==
  /\ pc = "parsed"
  /\ source \in {ALIPAY, WECHAT}
  /\ \E i \in 1..Len(normalized) :
       /\ normalized[i].direction = DIR_EXPENSE
       /\ AmountRead(RawOf(normalized[i]).amount) > 0
  /\ \E i \in 1..Len(normalized) :
       /\ normalized[i].direction = DIR_INCOME
       /\ AmountRead(RawOf(normalized[i]).amount) < 0

\* C15: the parsers of the two sources with a direction column take currency
\* symbols and thousands separators out of the amount before they convert it:
\* the cell "Y1,250.50" (Y the yen sign) of an expense comes out as -1250.50.
C15_SymbolsStripped ==
  (pc = "parsed" /\ source \in {ALIPAY, WECHAT}) =>
    \A i \in 1..Len(normalized) :
      (RawOf(normalized[i]).amount = CELL_YEN /\ normalized[i].direction = DIR_EXPENSE)
        => normalized[i].amount = -1250500

\* The raw description the claim states for a row of the parser at work: the
\* description and the counterparty, after the type for the bank, joined by
\* single spaces.
StatedRawDescription(r) ==
  IF source = CCB
    THEN r.type \o <<" ">> \o r.description \o <<" ">> \o r.counterparty
    ELSE r.description \o <<" ">> \o r.counterparty

\* C22: every row a parser returns carries, as its raw description, the
\* description and the counterparty of its raw row (after the type, for the
\* bank) joined by single spaces, whenever the raw row has these cells.
C22_RawDescriptionJoined ==
  pc = "parsed" =>
    \A i \in 1..Len(normalized) :
      LET r == RawOf(normalized[i])
      IN (r.type # NaN /\ r.description # NaN /\ r.counterparty # NaN) =>
           normalized[i].raw_description = StatedRawDescription(r)

\* The status a row must have to be kept by the parser at work.
SuccessStatus == IF source = ALIPAY THEN TRADE_SUCCESS ELSE PAY_SUCCESS

\* C23: the parsers of the two sources with a status return exactly the rows
\* whose status is the platform's success text, and drop the others without
\* raising: parse() of an export that has rows returns.
C23_StatusFilter ==
  (source \in {ALIPAY, WECHAT} /\ raw # <<>>) =>
    /\ pc # "raised"
    /\ pc = "parsed" =>
         Rids(normalized) = {raw[i].rid : i \in {j \in 1..Len(raw) : raw[j].status = SuccessStatus}}

\* The category the claim states for a raw category of the wallet app's
\* export: the sentinel for a missing one, a known category as it is, else the
\* value of the first key of the table, in the table's order, that the raw
\* category holds, else the raw category itself.
StatedStandardCategory(category) ==
  IF category = NaN THEN UNCATEGORIZED
  ELSE LET c == Strip(category)
           holding == {m \in 1..Len(category_mapping) : Contains(c, category_mapping[m].key)}
       IN IF c \in known_categories \/ holding = {} THEN c
          ELSE category_mapping[CHOOSE m \in holding : \A k \in holding : m <= k].value

\* C24: AlipayParser gives every row it returns the category the claim states
\* for the row's raw category: known categories pass, the first key of the
\* table decides, a value holding no key passes as it is, and only a missing
\* one becomes the sentinel.
C24_StandardizeCategory ==
  (pc = "parsed" /\ source = ALIPAY) =>
    \A i \in 1..Len(normalized) :
      normalized[i].category = StatedStandardCategory(RawOf(normalized[i]).category)

\* C24's case: a raw category holding keys of two categories, the key first
\* in the text being later in the table, beside one holding no key at all.
C24_Witness ==
  /\ pc = "parsed"
  /\ source = ALIPAY
  /\ \E i, j \in 1..Len(normalized) :
       /\ RawOf(normalized[i]).category = TXT_BEAUTY_FOOD
       /\ normalized[i].category = CAT_FOOD
       /\ RawOf(normalized[j]).category = TXT_XYZ
       /\ normalized[j].category = TXT_XYZ

----------------------------------------------------------------------------
(* BillAnalyzer.run from the files of the input directory on *)

\* A row of a platform's file that its parser keeps: a bank expense, a paid
\* order of the p2p app in the next minute, and one of the wallet app in that
\* minute too but later. The wallet app's file is parsed first and the bank's
\* last.
PaidRow(platform) ==
  CASE platform = ALIPAY -> [AlipayBase EXCEPT !.time = 105]
    [] platform = WECHAT -> [WechatBase EXCEPT !.time = 90]
    [] platform = CCB -> [CCBBase EXCEPT !.amount = CELL_MINUS_35]

\* Rows of the files: the paid row and, for the wallet app, a closed order
\* (which its parser filters out) and a paid one whose time cannot be read.
LoadRows(platform) ==
  IF platform = ALIPAY
    THEN {PaidRow(platform), [AlipayBase EXCEPT !.status = TXT_CLOSED],
          [AlipayBase EXCEPT !.time = NaT]}
    ELSE {PaidRow(platform)}

\* The header rows without an amount column that _map_columns can find.
BadHeaders(platform) ==
  CASE platform = ALIPAY -> {ALIPAY_HEADERS_NO_AMOUNT, ALIPAY_HEADERS_REFUND}
    [] platform = WECHAT -> {WECHAT_HEADERS_NO_AMOUNT}
    [] platform = CCB -> {CCB_HEADERS_NO_AMOUNT, CCB_HEADERS_BALANCE}

GoodHeaders(platform) ==
  CASE platform = ALIPAY -> ALIPAY_HEADERS
    [] platform = WECHAT -> WECHAT_HEADERS
    [] platform = CCB -> CCB_HEADERS

\* The k-th file of a platform: the usual headers over some rows, or headers
\* without an amount column over the paid row. rid names the platform, the
\* file and the row.
FilesOf(platform, k) ==
  {[headers |-> GoodHeaders(platform),
    table |-> [i \in 1..Len(t) |-> t[i] @@ [rid |-> <<platform, k, i>>]]] :
     t \in UNION {[1..n -> LoadRows(platform)] : n \in 0..MaxLedgerRows}}
  \cup {[headers |-> h,
         table |-> <<PaidRow(platform) @@ [rid |-> <<platform, k, 1>>]>>] :
          h \in BadHeaders(platform)}

\* At most one file (alipay.csv, ccb.xls), or at most max files (wechat_*.xlsx).
FileLists(platform, max) ==
  UNION {{fs \in [1..n -> UNION {FilesOf(platform, k) : k \in 1..n}] :
            \A k \in 1..n : fs[k] \in FilesOf(platform, k)} : n \in 0..max}

\* The number of rows of a list of files.
RECURSIVE RowsFrom(_, _)
RowsFrom(files, k) ==
  IF k > Len(files) THEN 0 ELSE Len(files[k].table) + RowsFrom(files, k + 1)

RowsIn(files) == RowsFrom(files, 1)

InitRun ==
  /\ pc = "load_alipay"
  /\ all_transactions = <<>>
  /\ cleaned = <<>>
  /\ deduped = <<>>
  /\ duplicates = <<>>
  /\ classified = <<>>
  /\ NoParser
  /\ NoWindow
  /\ NoMap
  /\ \E a \in FileLists(ALIPAY, 1), w \in FileLists(WECHAT, MaxFiles), c \in FileLists(CCB, 1) :
       /\ RowsIn(a) + RowsIn(w) + RowsIn(c) <= MaxLedgerRows
       /\ input_dir = [alipay |-> a, wechat |-> w, ccb |-> c]
  /\ all_data = <<>>
  /\ parse_log = <<>>

\* _load_all_bills: alipay.csv, when it exists, parsed inside a try.
LoadAlipay ==
  /\ pc = "load_alipay"
  /\ \E loaded \in load_files(ALIPAY, input_dir.alipay, 1,
                              [data |-> all_data, log |-> parse_log]) :
       all_data' = loaded.data /\ parse_log' = loaded.log
  /\ pc' = "load_wechat"
  /\ UNCHANGED <<all_transactions, cleaned, deduped, duplicates, classified,
                 source, raw, normalized, input_dir, window_minutes, windowed,
               columns, column_map>>

\* _load_all_bills: the files wechat_*.xlsx parsed one after the other inside
\* one try.
LoadWechat ==
  /\ pc = "load_wechat"
  /\ \E loaded \in load_files(WECHAT, input_dir.wechat, 1,
                              [data |-> all_data, log |-> parse_log]) :
       all_data' = loaded.data /\ parse_log' = loaded.log
  /\ pc' = "load_ccb"
  /\ UNCHANGED <<all_transactions, cleaned, deduped, duplicates, classified,
                 source, raw, normalized, input_dir, window_minutes, windowed,
               columns, column_map>>

\* _load_all_bills: ccb.xls, when it exists, parsed inside a try.
LoadCCB ==
  /\ pc = "load_ccb"
  /\ \E loaded \in load_files(CCB, input_dir.ccb, 1,
                              [data |-> all_data, log |-> parse_log]) :
       all_data' = loaded.data /\ parse_log' = loaded.log
  /\ pc' = "combine"
  /\ UNCHANGED <<all_transactions, cleaned, deduped, duplicates, classified,
                 source, raw, normalized, input_dir, window_minutes, windowed,
               columns, column_map>>

\* _load_all_bills returns; run() is at its test of all_transactions.empty.
Combine ==
  /\ pc = "combine"
  /\ all_transactions' \in concat_and_sort(all_data)
  /\ pc' = "clean"
  /\ UNCHANGED <<cleaned, deduped, duplicates, classified, source, raw, normalized,
                 input_dir, all_data, parse_log, window_minutes, windowed,
               columns, column_map>>

NextRun == LoadAlipay \/ LoadWechat \/ LoadCCB \/ Combine \/ Next

SpecRun == InitRun /\ [][NextRun]_vars

----------------------------------------------------------------------------
(* Statements about BillAnalyzer.run and _load_all_bills *)

\* _load_all_bills has returned.
Loaded == pc \notin {"load_alipay", "load_wechat", "load_ccb", "combine"}

\* The files of a platform in the input directory.
FilesIn(platform) ==
  CASE platform = ALIPAY -> input_dir.alipay
    [] platform = WECHAT -> input_dir.wechat
    [] platform = CCB -> input_dir.ccb

\* No header of the file holds the word for amount ("jine").
NoAmountHeader(file) ==
  \A c \in 1..Len(file.headers) : ~Contains(file.headers[c], COL_AMOUNT)

\* The calls of parse() that returned a table.
Parsed == SelectSeq(parse_log, LAMBDA call : ~call.raised)

\* C11: when the amount column of a source's file cannot be located, the
\* parser fails with its missing-column error and _load_all_bills skips that
\* source only: the combined ledger holds no record of the file and every
\* record of every other file that was parsed successfully.
C11_FailedSourceSkipped ==
  Loaded =>
    \A platform \in {ALIPAY, WECHAT, CCB} :
      \A k \in 1..Len(FilesIn(platform)) :
        NoAmountHeader(FilesIn(platform)[k]) =>
          /\ \A n \in 1..Len(parse_log) :
               (parse_log[n].platform = platform /\ parse_log[n].file = k) =>
                 parse_log[n].raised
          /\ \A i \in 1..Len(all_transactions) :
               ~(all_transactions[i].rid[1] = platform /\ all_transactions[i].rid[2] = k)
          /\ \A n \in 1..Len(Parsed) :
               Rids(Parsed[n].table) \subseteq Rids(all_transactions)
          /\ Len(all_transactions) = Len(concat([n \in 1..Len(Parsed) |-> Parsed[n].table], 1))

\* The wallet app's file has no amount column and its parse raised; the p2p
\* app's and the bank's files were parsed and their records are in the ledger.
C11_Witness ==
  /\ Loaded
  /\ Len(input_dir.alipay) = 1
  /\ NoAmountHeader(input_dir.alipay[1])
  /\ \E n \in 1..Len(parse_log) : parse_log[n].platform = ALIPAY /\ parse_log[n].raised
  /\ \E n \in 1..Len(Parsed) : Parsed[n].platform = WECHAT /\ Parsed[n].table # <<>>
  /\ \E n \in 1..Len(Parsed) : Parsed[n].platform = CCB /\ Parsed[n].table # <<>>
  /\ Len(all_transactions) >= 2

\* Every source is absent, failed to parse, or yielded no rows.
NoRowsLoaded == \A n \in 1..Len(parse_log) : parse_log[n].raised \/ parse_log[n].table = <<>>

\* C13: when every source is absent, fails to parse or yields no rows, run()
\* returns its empty result without raising and without running the cleaner,
\* the deduplicator, the classifier or the report stages.
C13_NoDataEndsRun ==
  (Loaded /\ NoRowsLoaded) =>
    /\ pc \in {"clean", "done"}
    /\ pc = "clean" => ENABLED RunEmpty
    /\ cleaned = <<>> /\ deduped = <<>> /\ duplicates = <<>> /\ classified = <<>>

\* run() has returned {} with a file that failed to parse and a file that
\* yielded no rows in the input directory.
C13_Witness ==
  /\ pc = "done"
  /\ \E n \in 1..Len(parse_log) : parse_log[n].raised
  /\ \E n \in 1..Len(parse_log) : ~parse_log[n].raised /\ parse_log[n].table = <<>>

\* A table is in time order: times do not decrease, and the rows without a time
\* stand after all others.
InTimeOrder(df) ==
  \A i, j \in 1..Len(df) :
    i < j => \/ df[j].time = NaT
             \/ (df[i].time # NaT /\ df[i].time <= df[j].time)

\* C26: the ledger _load_all_bills returns is sorted by non-decreasing time,
\* whatever the order the files were parsed and appended in.
C26_LedgerInTimeOrder ==
  Loaded => InTimeOrder(all_transactions)

\* C26's case: the tables as they were appended are not in time order (a later
\* file holds an earlier record, and a record without a time is not the last),
\* and the ledger holds all their records.
C26_Witness ==
  /\ Loaded
  /\ \E i, j \in 1..Len(concat(all_data, 1)) :
       /\ i < j
       /\ concat(all_data, 1)[i].time # NaT
       /\ concat(all_data, 1)[j].time # NaT
       /\ concat(all_data, 1)[i].time > concat(all_data, 1)[j].time
  /\ \E i, j \in 1..Len(concat(all_data, 1)) :
       i < j /\ concat(all_data, 1)[i].time = NaT /\ concat(all_data, 1)[j].time # NaT
  /\ Len(all_transactions) = Len(concat(all_data, 1))

\* C27: the rows deduplicate retains stand in the order of their platform's
\* priority number (the p2p app's, then the wallet app's, then the bank's),
\* rows of a platform without a number last.
C27_RetainedInPriorityOrder ==
  pc \in {"classify", "analyze"} =>
    \A i, j \in 1..Len(deduped) :
      i < j => \/ priority_of(deduped[j]) = NaNPriority
               \/ /\ priority_of(deduped[i]) # NaNPriority
                  /\ priority_of(deduped[i]) <= priority_of(deduped[j])

\* C27's case: the ledger was in time order, and the rows handed to the
\* classifier are not: a row of the p2p app stands before an earlier row of the
\* bank.
C27_Witness ==
  /\ pc = "analyze"
  /\ InTimeOrder(all_transactions)
  /\ ~InTimeOrder(deduped)
  /\ \E i, j \in 1..Len(classified) :
       /\ i < j
       /\ classified[i].platform = WECHAT
       /\ classified[j].platform = CCB
       /\ classified[j].time < classified[i].time

\* The calls of parse() on the files of a platform.
CallsOf(platform) == SelectSeq(parse_log, LAMBDA call : call.platform = platform)

\* C30: when the parse of the k-th file of the p2p app fails, the records of
\* its files parsed before are in the ledger, none of its files after the k-th
\* is parsed, and the bank's file is still loaded.
C30_FailureEndsWechatFiles ==
  Loaded =>
    \A n \in 1..Len(CallsOf(WECHAT)) :
      CallsOf(WECHAT)[n].raised =>
        /\ \A m \in 1..Len(CallsOf(WECHAT)) :
             /\ CallsOf(WECHAT)[m].file <= CallsOf(WECHAT)[n].file
             /\ m < n => (/\ ~CallsOf(WECHAT)[m].raised
                          /\ Rids(CallsOf(WECHAT)[m].table) \subseteq Rids(all_transactions))
        /\ \A k \in 1..(CallsOf(WECHAT)[n].file - 1) :
             \E m \in 1..Len(CallsOf(WECHAT)) : CallsOf(WECHAT)[m].file = k
        /\ input_dir.ccb # <<>> =>
             /\ Len(CallsOf(CCB)) = 1
             /\ ~CallsOf(CCB)[1].raised =>
                  Rids(CallsOf(CCB)[1].table) \subseteq Rids(all_transactions)

\* C30's case: the first of two files of the p2p app failed, the second, with
\* an amount column and a record, was never parsed and none of its records is
\* in the ledger, and the bank's record is.
C30_Witness ==
  /\ Loaded
  /\ Len(input_dir.wechat) = 2
  /\ ~NoAmountHeader(input_dir.wechat[2])
  /\ input_dir.wechat[2].table # <<>>
  /\ Len(CallsOf(WECHAT)) = 1
  /\ CallsOf(WECHAT)[1].raised
  /\ \A i \in 1..Len(all_transactions) : all_transactions[i].rid[1] # WECHAT
  /\ \E i \in 1..Len(all_transactions) : all_transactions[i].rid[1] = CCB

----------------------------------------------------------------------------
(* _map_columns on its own *)

\* Headers an export of each platform can have.
HeaderPool(platform) ==
  CASE platform = ALIPAY ->
    {<<"u4ea4","u6613","u65f6","u95f4">>,
     <<"u4ed8","u6b3e","u65f6","u95f4">>,
     <<"u91d1","u989d","(","u5143",")">>,
     <<"u4ea4","u6613","u5bf9","u65b9">>,
     <<"u5546","u54c1","u8bf4","u660e">>,
     <<"u4ea4","u6613","u72b6","u6001">>}
    [] platform = WECHAT ->
    {<<"u4ea4","u6613","u65f6","u95f4">>,
     <<"u652f","u4ed8","u65f6","u95f4">>,
     <<"u91d1","u989d","(","u5143",")">>,
     <<"u4ea4","u6613","u5bf9","u65b9">>,
     <<"u5546","u54c1">>,
     <<"u5f53","u524d","u72b6","u6001">>}
    [] platform = CCB ->
    {<<"u8bb0","u8d26","u65e5","u671f">>,
     <<"u4ea4","u6613","u65e5","u671f">>,
     <<"u4ea4","u6613","u91d1","u989d">>,
     <<"u8d26","u6237","u4f59","u989d">>,
     <<"u6458","u8981">>,
     <<"u5bf9","u65b9","u8d26","u53f7","u4e0e","u6237","u540d">>}

\* The columns of an export: up to MaxColumns different headers in any order;
\* dated says whether the cells of the column look like dates (only the
\* bank's parser looks at the cells).
ColumnRows(platform) ==
  UNION {{cols \in [1..n -> [header : HeaderPool(platform),
                             dated : IF platform = CCB THEN BOOLEAN ELSE {FALSE}]] :
            \A c, d \in 1..n : cols[c].header = cols[d].header => c = d} :
         n \in 1..MaxColumns}

InitMap ==
  /\ pc = "map"
  /\ all_transactions = <<>>
  /\ cleaned = <<>>
  /\ deduped = <<>>
  /\ duplicates = <<>>
  /\ classified = <<>>
  /\ source \in {ALIPAY, WECHAT, CCB}
  /\ raw = <<>>
  /\ normalized = <<>>
  /\ NoLoad
  /\ NoWindow
  /\ columns \in ColumnRows(source)
  /\ column_map = <<>>

\* A call of the parser's _map_columns on the export.
MapColumns ==
  /\ pc = "map"
  /\ column_map' = map_columns(source, columns)
  /\ pc' = IF column_map'.raised THEN "raised" ELSE "mapped"
  /\ UNCHANGED <<all_transactions, cleaned, deduped, duplicates, classified, source, raw,
                 normalized, input_dir, all_data, parse_log, window_minutes, windowed,
                 columns>>

SpecMap == InitMap /\ [][MapColumns]_vars

----------------------------------------------------------------------------
(* Statements about _map_columns *)

\* The columns a loop may take: those whose header holds keyword kw and none of
\* the loop's excluded words.
Holding(loop, kw) ==
  {c \in 1..Len(columns) :
     Contains(columns[c].header, kw) /\ ~any_in(loop.excluded, columns[c].header)}

\* C21: for each canonical field, the column selected is one whose header
\* holds the first keyword, in the order of the field's keyword list, that any
\* header holds, wherever the columns stand in the table (for every export
\* _map_columns accepts).
C21_KeywordPriority ==
  pc = "mapped" =>
    \A l \in 1..Len(columns_of(source)) :
      LET loop == columns_of(source)[l]
          matching == {k \in 1..Len(loop.keywords) : Holding(loop, loop.keywords[k]) # {}}
      IN matching # {} =>
           column_map.selected[l] \in
             Holding(loop, loop.keywords[CHOOSE k \in matching : \A j \in matching : k <= j])

=============================================================================
